---- MODULE Spec2Model ----
(***************************************************************************)
(* The paginated-fetch / detail-join / report pipeline of the export       *)
(* scripts (deprecated/export_inactive_packages.py,                        *)
(* deprecated/export_active_package_history.py, export_lab_results.py) and *)
(* of load_items in deprecated/discontinue_items_v2.py.                    *)
(*                                                                         *)
(* The main thread is followed by pc; every future of the live             *)
(* ThreadPoolExecutor is a record of futures; the remote collection is the *)
(* records with ids 1..remoteTotal.                                        *)
(*                                                                         *)
(* Spec follows generate_report / load_items from the probe on; SpecRun    *)
(* follows main from authentication and license selection, also for        *)
(* deprecated/t3_search.py. The pure functions of the inactive export are  *)
(* checked on enumerated arguments: SpecExtract (the description regexes), *)
(* SpecJoinHistory (the body of the history joiner), SpecFlatten           *)
(* (flatten_dict) and SpecCsv (write_to_csv).                              *)
(***************************************************************************)
EXTENDS Integers, Sequences, FiniteSets

\* ---- bounds of the model ------------------------------------------------
\* Largest remote collection explored.
MaxTotal == 5
\* The scripts set PAGE_SIZE = 500, BATCH_SIZE / HISTORY_BATCH_SIZE = 25 and
\* MAX_WORKERS = 5; the model keeps the names and explores them scaled down.
PAGE_SIZE == 2
BATCH_SIZE == 2
MAX_WORKERS == 2

\* Largest collection explored by the specification of a whole run, and the
\* longest license list the remote returns.
RunMaxTotal == 3
MaxLicenses == 2

\* ---- program constants --------------------------------------------------
MAX_RETRIES == 5

Variants == {"inactive", "history", "labresults", "items"}
\* The scripts whose whole run is followed: the four above and t3_search.py.
Scripts == Variants \cup {"search"}
\* What one session.get + raise_for_status + json can do: return the payload
\* or raise a RequestException (Timeout and HTTPError are subclasses of it;
\* each of the three except clauses only logs).
Outcomes == {"ok", "RequestException"}

VARIABLES
    variant,        \* which script runs
    load_history,   \* --history flag (inactive), always on for history/labresults
    remoteTotal,    \* size of the remote collection
    pc,             \* position of the main thread
    probe,          \* the count request made by the main thread
    max_pages,      \* math.ceil(total / PAGE_SIZE)
    futures,        \* key -> request record: the futures as_completed has
                    \* not yet yielded (key: page number or package position)
    liveExecutors,  \* executors created and not yet shut down
    packages,       \* the aggregated list (items in load_items)
    batch_i,        \* loop variable i of the detail joiner (0-based offset)
    pagesSubmitted, \* executor.submit(fetch_page, page=..) calls, in order
    detailSubmitted,\* executor.submit(fetch detail, package_id=..) calls, in order
    pageOutcome,    \* page -> "none" | "returned" | "raised" as seen by the loop
    detailOutcome,  \* package position -> "none" | "returned" | "raised"
    errorLog,       \* logger.error lines of the two as_completed loops
    output,         \* the report file
    access_token,   \* "" until the credentials response carries accessToken
    licenses,       \* the list returned by GET /v2/licenses
    selection,      \* what the user typed at "Select a license by number: "
    current_license,\* position in licenses of the selected license, 0 for None
    requestLog,     \* API requests issued after the selection, with the
                    \* licenseNumber query parameter each one carried
    fn_in,          \* argument of the function under check (function specs)
    fn_out          \* its result

pipeVars == <<variant, load_history, remoteTotal, pc, probe, max_pages, futures,
              liveExecutors, packages, batch_i, pagesSubmitted,
              detailSubmitted, pageOutcome, detailOutcome, errorLog, output>>
authVars == <<access_token, licenses, selection, current_license>>
fnVars == <<fn_in, fn_out>>
vars == <<pipeVars, authVars, requestLog, fnVars>>

\* ---- helpers ------------------------------------------------------------
Min(a, b) == IF a < b THEN a ELSE b

\* math.ceil(int(total) / PAGE_SIZE)
CeilDivFloor(total, size) == total \div size
CeilDiv(total, size) ==
    IF total % size = 0 THEN total \div size ELSE (total \div size) + 1

\* A request that has not yet issued a GET.
NewRequest(arg) ==
    [st |-> "queued", retries |-> 0, gets |-> 0, sleeps |-> 0, arg |-> arg]

\* One iteration of the while loop of make_request_with_retries: the GET
\* either returns response.json() or raises one of the caught exceptions,
\* each of which is logged and followed by retries += 1 and the sleep.
RequestStepUnbounded(r, outcome) ==
    IF outcome = "ok"
    THEN [r EXCEPT !.gets = @ + 1, !.st = "returned"]
    ELSE LET n == (r.retries + 1) % MAX_RETRIES IN
         [r EXCEPT !.gets = n, !.retries = n, !.sleeps = n, !.st = "running"]
RequestStep(r, outcome) ==
    IF outcome = "ok"
    THEN [r EXCEPT !.gets = @ + 1, !.st = "returned"]
    ELSE LET n == r.retries + 1 IN
         [r EXCEPT !.gets = @ + 1, !.retries = n, !.sleeps = @ + 1,
                   !.st = IF n < MAX_RETRIES THEN "running" ELSE "raised"]

\* ---- the remote API -----------------------------------------------------
\* GET <endpoint>?page=p&pageSize=size: the p-th slice of the collection.
RemotePage(p, size) ==
    [j \in 1..(Min(p * size, remoteTotal) - Min((p - 1) * size, remoteTotal))
        |-> (p - 1) * size + j]

\* GET /v2/packages/history|labresults?packageId=id: the "data" list.
RemoteDetail(id) == [j \in 1..(id % 3) |-> [owner |-> id, n |-> j]]

NoFutures == [k \in {} |-> NewRequest(0)]
NoOutput == [written |-> FALSE, kind |-> "none", rows |-> <<>>]

NewPackage(id) == [id |-> id, has_detail |-> FALSE, detail |-> <<>>]

RECURSIVE MapPackages(_)
MapPackages(ids) ==
    IF ids = <<>> THEN <<>>
    ELSE <<NewPackage(Head(ids))>> \o MapPackages(Tail(ids))

Running == {k \in DOMAIN futures : futures[k].st = "running"}
Queued == {k \in DOMAIN futures : futures[k].st = "queued"}
Completed == {k \in DOMAIN futures : futures[k].st \in {"returned", "raised"}}

\* ---- authentication and license selection --------------------------------
\* The i-th license of the account, as GET /v2/licenses returns it.
License(i) == [licenseNumber |-> 100 + i, licenseName |-> 200 + i]
LicenseList(n) == [i \in 1..n |-> License(i)]

\* What may be typed at the prompt: text int() rejects, or a numeral n.
Selections ==
    {[numeric |-> FALSE, n |-> 0]} \cup
    {[numeric |-> TRUE, n |-> n] : n \in (0 - 1)..(MaxLicenses + 1)}

\* select_license: int(input(..)) - 1 raises ValueError on non-numeric text;
\* the index must satisfy 0 <= selected_index < len(licenses). Returns the
\* position of the selected license, 0 standing for None.
SelectLicenseAny(inp, lics) == IF inp.numeric THEN 1 ELSE 0
SelectLicense(inp, lics) ==
    IF ~inp.numeric THEN 0
    ELSE LET selected_index == inp.n - 1 IN
         IF 0 <= selected_index /\ selected_index < Len(lics)
         THEN selected_index + 1 ELSE 0

\* The licenseNumber query parameter built from the license_number argument
\* main passes on: current_license["licenseNumber"] in the export scripts
\* and discontinue_items_v2, current_license itself in t3_search.
LicenseNumberArg ==
    IF variant = "search"
    THEN [is |-> "dict", licenseNumber |-> licenses[current_license].licenseNumber]
    ELSE [is |-> "str", licenseNumber |-> licenses[current_license].licenseNumber]

ApiRequest(kind) == [kind |-> kind, licenseNumber |-> LicenseNumberArg]

\* State of the pipeline before generate_report / load_items is entered.
PipelineIdle ==
    /\ probe = [NewRequest(1) EXCEPT !.st = "running"]
    /\ max_pages = 0
    /\ futures = NoFutures
    /\ liveExecutors = 0
    /\ packages = <<>>
    /\ batch_i = 0
    /\ pagesSubmitted = <<>>
    /\ detailSubmitted = <<>>
    /\ pageOutcome = [p \in {} |-> "none"]
    /\ detailOutcome = [k \in {} |-> "none"]
    /\ errorLog = {}
    /\ output = NoOutput
    /\ requestLog = {}

\* A run from the first line of main.
InitRun ==
    /\ variant \in Scripts
    /\ load_history \in BOOLEAN
    /\ variant \in {"history", "labresults"} => load_history = TRUE
    /\ variant \in {"items", "search"} => load_history = FALSE
    /\ remoteTotal \in 0..RunMaxTotal
    /\ pc = "auth"
    /\ access_token = ""
    /\ licenses = <<>>
    /\ selection = [numeric |-> FALSE, n |-> 0]
    /\ current_license = 0
    /\ PipelineIdle
    /\ fn_in = <<>>
    /\ fn_out = <<>>

\* obtain_access_token: the POST may fail (raise_for_status), or the JSON may
\* lack accessToken. The export scripts let the exception reach main's
\* except clauses and return on a missing token; t3_search catches the
\* exception, returns None and exits.
ObtainAccessToken ==
    /\ pc = "auth"
    /\ \E resp \in {"token", "no_token", "RequestException"} :
        /\ access_token' = IF resp = "token" THEN "token" ELSE ""
        /\ pc' = CASE resp = "token" -> "licenses"
                   [] resp = "no_token" -> "aborted"
                   [] OTHER -> IF variant = "search" THEN "aborted"
                               ELSE "request_error"
    /\ UNCHANGED <<variant, load_history, remoteTotal, probe, max_pages, futures,
                   liveExecutors, packages, batch_i, pagesSubmitted,
                   detailSubmitted, pageOutcome, detailOutcome, errorLog, output>>
    /\ UNCHANGED <<licenses, selection, current_license, requestLog, fnVars>>

\* licenses = retrieve_licenses(..); if not licenses: return
RetrieveLicenses ==
    /\ pc = "licenses"
    /\ \/ \E n \in 0..MaxLicenses :
            /\ licenses' = LicenseList(n)
            /\ pc' = IF n = 0 THEN "aborted" ELSE "select"
       \/ /\ licenses' = licenses
          /\ pc' = IF variant = "search" THEN "aborted" ELSE "request_error"
    /\ UNCHANGED <<variant, load_history, remoteTotal, probe, max_pages, futures,
                   liveExecutors, packages, batch_i, pagesSubmitted,
                   detailSubmitted, pageOutcome, detailOutcome, errorLog, output>>
    /\ UNCHANGED <<access_token, selection, current_license, requestLog, fnVars>>

\* current_license = select_license(licenses=licenses)
\* if not current_license: return
AfterSelect(sel) ==
    IF sel = 0 THEN "aborted"
    ELSE IF variant = "search" THEN "search" ELSE "probe"

SelectLicenseStep ==
    /\ pc = "select"
    /\ \E inp \in Selections :
        LET sel == SelectLicense(inp, licenses) IN
        /\ selection' = inp
        /\ current_license' = sel
        /\ pc' = AfterSelect(sel)
    /\ UNCHANGED <<variant, load_history, remoteTotal, probe, max_pages, futures,
                   liveExecutors, packages, batch_i, pagesSubmitted,
                   detailSubmitted, pageOutcome, detailOutcome, errorLog, output>>
    /\ UNCHANGED <<access_token, licenses, requestLog, fnVars>>

\* t3_search.execute_search, called by the main that searches (the file's
\* second main; the first one only authenticates and lists the licenses):
\* one GET /v2/search with params licenseNumber and query; raise_for_status
\* is not caught by execute_search or by main.
ExecuteSearch ==
    /\ pc = "search"
    /\ requestLog' = requestLog \cup {ApiRequest("search")}
    /\ \E outcome \in Outcomes :
        pc' = IF outcome = "ok" THEN "done" ELSE "crashed"
    /\ UNCHANGED <<variant, load_history, remoteTotal, probe, max_pages, futures,
                   liveExecutors, packages, batch_i, pagesSubmitted,
                   detailSubmitted, pageOutcome, detailOutcome, errorLog, output>>
    /\ UNCHANGED <<authVars, fnVars>>

\* ---- initial state ------------------------------------------------------
\* generate_report / load_items is entered with a token and a selected license.
Init ==
    /\ variant \in Variants
    /\ load_history \in BOOLEAN
    /\ variant \in {"history", "labresults"} => load_history = TRUE
    /\ variant = "items" => load_history = FALSE
    /\ remoteTotal \in 0..MaxTotal
    /\ access_token = "token"
    /\ licenses = LicenseList(1)
    /\ selection = [numeric |-> TRUE, n |-> 1]
    /\ current_license = 1
    /\ requestLog = {}
    /\ fn_in = <<>>
    /\ fn_out = <<>>
    /\ pc = "probe"
    /\ probe = [NewRequest(1) EXCEPT !.st = "running"]
    /\ max_pages = 0
    /\ futures = NoFutures
    /\ liveExecutors = 0
    /\ packages = <<>>
    /\ batch_i = 0
    /\ pagesSubmitted = <<>>
    /\ detailSubmitted = <<>>
    /\ pageOutcome = [p \in {} |-> "none"]
    /\ detailOutcome = [k \in {} |-> "none"]
    /\ errorLog = {}
    /\ output = NoOutput

\* ---- the probe ----------------------------------------------------------
\* count_response = make_request_with_retries(... pageSize=5 ...), followed
\* GET by GET in the main thread, then max_pages; an exhausted probe
\* propagates to main's except clause.
\* Where the run goes after a GET of the probe: on with the loop, on to the
\* page pool, or, when make_request_with_retries raised, to main's
\* "except Exception" clause (generate_report has no handler of its own).
PcAfterProbeIgnore(st) == IF st = "running" THEN "probe" ELSE "submit_pages"
PcAfterProbe(st) ==
    CASE st = "returned" -> "submit_pages"
      [] st = "raised" -> "error"
      [] OTHER -> "probe"

ProbeAttempt ==
    /\ pc = "probe"
    /\ \E outcome \in Outcomes :
        LET r == RequestStep(probe, outcome) IN
        /\ probe' = r
        /\ pc' = PcAfterProbe(r.st)
        /\ max_pages' = IF r.st = "returned"
                        THEN CeilDiv(remoteTotal, PAGE_SIZE) ELSE max_pages
    /\ requestLog' = requestLog \cup {ApiRequest("probe")}
    /\ UNCHANGED <<variant, load_history, remoteTotal, futures,
                   liveExecutors, packages, batch_i, pagesSubmitted,
                   detailSubmitted, pageOutcome, detailOutcome, errorLog, output>>
    /\ UNCHANGED <<authVars, fnVars>>

\* ---- the page phase ------------------------------------------------------
\* range(1, max_pages + 1)
PageRange(n) == 1..n

RECURSIVE Ascending(_)
\* The elements of a finite set of integers in increasing order.
Ascending(S) ==
    IF S = {} THEN <<>>
    ELSE LET m == CHOOSE x \in S : \A y \in S : x <= y IN
         <<m>> \o Ascending(S \ {m})

\* with ThreadPoolExecutor(max_workers=MAX_WORKERS) as executor:
\*     future_to_page = {executor.submit(fetch_page, page=page): page ...}
SubmitPages ==
    /\ pc = "submit_pages"
    /\ pc' = "pages"
    /\ liveExecutors' = liveExecutors + 1
    /\ futures' = [p \in PageRange(max_pages) |-> NewRequest(p)]
    /\ pagesSubmitted' = Ascending(PageRange(max_pages))
    /\ pageOutcome' = [p \in PageRange(max_pages) |-> "none"]
    /\ UNCHANGED <<variant, load_history, remoteTotal, probe, max_pages,
                   packages, batch_i, detailSubmitted, detailOutcome,
                   errorLog, output>>
    /\ UNCHANGED <<authVars, requestLog, fnVars>>

\* A worker thread is idle: the executor runs at most max_workers threads.
WorkerFreeOneMore == Cardinality(Running) <= MAX_WORKERS
WorkerFree == Cardinality(Running) < MAX_WORKERS

\* An idle worker takes the oldest work item of the executor's queue and
\* enters fetch_page / fetch_package_history -> make_request_with_retries.
StartTask(k) ==
    /\ k \in Queued
    /\ \A j \in Queued : k <= j
    /\ WorkerFree
    /\ futures' = [futures EXCEPT ![k].st = "running"]
    /\ UNCHANGED <<variant, load_history, remoteTotal, pc, probe, max_pages,
                   liveExecutors, packages, batch_i, pagesSubmitted,
                   detailSubmitted, pageOutcome, detailOutcome, errorLog, output>>
    /\ UNCHANGED <<authVars, requestLog, fnVars>>

RECURSIVE MakeRequestWithRetries(_, _)
\* The while loop of make_request_with_retries run to its end, for a call
\* whose first f GETs raise: it returns at the first GET that succeeds, or
\* raises once the loop condition retries < max_retries fails.
MakeRequestWithRetriesShared(r, f) ==
    LET R == {futures[j].retries : j \in DOMAIN futures} \cup {probe.retries}
        shared == CHOOSE x \in R : \A y \in R : y <= x
        room == MAX_RETRIES - shared
    IN  IF f >= room
        THEN [r EXCEPT !.st = "raised", !.gets = room, !.sleeps = room,
                       !.retries = MAX_RETRIES]
        ELSE [r EXCEPT !.st = "returned", !.gets = f + 1, !.sleeps = f,
                       !.retries = shared + f]
MakeRequestWithRetries(r, f) ==
    IF r.st # "running" THEN r
    ELSE IF f > 0
         THEN MakeRequestWithRetries(RequestStep(r, "RequestException"), f - 1)
         ELSE RequestStep(r, "ok")

\* A worker's fetch_page / fetch_package_history / fetch_package_labresults
\* call: a make_request_with_retries call on the shared session. Its retry
\* counter is a local of the call, so the call is one step of the worker.
TaskRunWritesResult(k) ==
    /\ k \in Running
    /\ \E f \in 0..MAX_RETRIES :
        LET r == MakeRequestWithRetries(futures[k], f) IN
        /\ futures' = [futures EXCEPT ![k] = r]
        /\ packages' = IF pc = "pages" /\ r.st = "returned"
                       THEN packages \o MapPackages(RemotePage(r.arg, PAGE_SIZE))
                       ELSE packages
    /\ requestLog' = requestLog \cup
                       {ApiRequest(IF pc = "pages" THEN "page" ELSE "detail")}
    /\ UNCHANGED <<variant, load_history, remoteTotal, pc, probe, max_pages,
                   liveExecutors, batch_i, pagesSubmitted,
                   detailSubmitted, pageOutcome, detailOutcome, errorLog, output>>
    /\ UNCHANGED <<authVars, fnVars>>
TaskRun(k) ==
    /\ k \in Running
    /\ \E f \in 0..MAX_RETRIES :
        futures' = [futures EXCEPT ![k] = MakeRequestWithRetries(@, f)]
    /\ requestLog' = requestLog \cup
                       {ApiRequest(IF pc = "pages" THEN "page" ELSE "detail")}
    /\ UNCHANGED <<variant, load_history, remoteTotal, pc, probe, max_pages,
                   liveExecutors, packages, batch_i, pagesSubmitted,
                   detailSubmitted, pageOutcome, detailOutcome, errorLog, output>>
    /\ UNCHANGED <<authVars, fnVars>>

\* packages.extend(response_payload["data"])
ExtendOverwrite(pkgs, data) == MapPackages(data)
Extend(pkgs, data) == pkgs \o MapPackages(data)

\* The except clause of the page loop logs and lets the loop go on.
PcAfterPageJoinPropagate(st) == IF st = "raised" THEN "error" ELSE "pages"
PcAfterPageJoin(st) == "pages"

\* The futures other than k.
Without(k) == [j \in (DOMAIN futures) \ {k} |-> futures[j]]

\* One iteration of `for future in as_completed(future_to_page)`.
JoinPage(p) ==
    /\ pc = "pages"
    /\ p \in Completed
    /\ futures' = Without(p)
    /\ pageOutcome' = [pageOutcome EXCEPT ![p] = futures[p].st]
    /\ LET data == RemotePage(futures[p].arg, PAGE_SIZE) IN
       IF futures[p].st = "returned"
       THEN /\ packages' = IF data # <<>> THEN Extend(packages, data) ELSE packages
            /\ errorLog' = errorLog
       ELSE /\ packages' = packages
            /\ errorLog' = errorLog \cup {<<"page", p>>}
    /\ pc' = PcAfterPageJoin(futures[p].st)
    /\ UNCHANGED <<variant, load_history, remoteTotal, probe, max_pages,
                   liveExecutors, batch_i, pagesSubmitted,
                   detailSubmitted, detailOutcome, output>>
    /\ UNCHANGED <<authVars, requestLog, fnVars>>

\* What generate_report / load_items does after the page loop.
NextAfterPages ==
    CASE variant = "items" -> "done"
      [] variant = "inactive" ->
            IF load_history /\ packages # <<>> THEN "batch_submit" ELSE "write"
      [] OTHER -> IF Len(packages) > 0 THEN "batch_submit" ELSE "write"

\* `for future in as_completed(future_to_page)` ends once it has yielded
\* every submitted future.
PagePoolDrainedEarly == TRUE
PagePoolDrained == DOMAIN futures = {}

\* The page loop has yielded every future; the with block's
\* shutdown(wait=True) returns.
ExitPagePool ==
    /\ pc = "pages"
    /\ PagePoolDrained
    /\ liveExecutors' = liveExecutors - 1
    /\ pc' = NextAfterPages
    /\ batch_i' = 0
    /\ detailOutcome' = [k \in 1..Len(packages) |-> "none"]
    /\ UNCHANGED <<variant, load_history, remoteTotal, probe, max_pages, futures,
                   packages, pagesSubmitted, detailSubmitted, pageOutcome,
                   errorLog, output>>
    /\ UNCHANGED <<authVars, requestLog, fnVars>>

\* ---- the detail joiner --------------------------------------------------
\* batch = packages[i : i + BATCH_SIZE], as positions 1..n of the list
BatchKeysShort(i, n) == (i + 1)..Min(i + BATCH_SIZE - 1, n)
BatchKeys(i, n) == (i + 1)..Min(i + BATCH_SIZE, n)

\* package_id=pkg["id"] of the task submitted for position k
DetailRequestIdFirst(k) == packages[batch_i + 1].id
DetailRequestId(k) == packages[k].id

RECURSIVE RequestIds(_)
RequestIds(keys) ==
    IF keys = <<>> THEN <<>>
    ELSE <<DetailRequestId(Head(keys))>> \o RequestIds(Tail(keys))

\* with ThreadPoolExecutor(max_workers=MAX_WORKERS) as executor:
\*     future_to_package = {executor.submit(fetch..., package_id=pkg["id"]): pkg ...}
SubmitBatch ==
    /\ pc = "batch_submit"
    /\ LET keys == BatchKeys(batch_i, Len(packages)) IN
       /\ futures' = [k \in (DOMAIN futures) \cup keys |->
                        IF k \in keys THEN NewRequest(DetailRequestId(k))
                        ELSE futures[k]]
       /\ detailSubmitted' = detailSubmitted \o RequestIds(Ascending(keys))
    /\ liveExecutors' = liveExecutors + 1
    /\ pc' = "batch"
    /\ UNCHANGED <<variant, load_history, remoteTotal, probe, max_pages,
                   packages, batch_i, pagesSubmitted, pageOutcome,
                   detailOutcome, errorLog, output>>
    /\ UNCHANGED <<authVars, requestLog, fnVars>>

\* The except clause of the detail loop logs and lets the loop go on.
PcAfterDetailJoinPropagate(st) == IF st = "raised" THEN "error" ELSE "batch"
PcAfterDetailJoin(st) == "batch"

\* inactive only: package["_history"][0] raises IndexError on an empty
\* history, inside the try block, after the key has been set.
HistoryIndexError(data) == variant = "inactive" /\ data = <<>>

\* One iteration of `for future in as_completed(future_to_package)`:
\* package["_history"] / package["_labresults"] = response.get("data").
JoinDetail(k) ==
    /\ pc = "batch"
    /\ k \in Completed
    /\ k \in BatchKeys(batch_i, Len(packages))
    /\ futures' = Without(k)
    /\ detailOutcome' = [detailOutcome EXCEPT ![k] = futures[k].st]
    /\ IF futures[k].st = "returned"
       THEN /\ packages' = [packages EXCEPT
                              ![k].has_detail = TRUE,
                              ![k].detail = RemoteDetail(futures[k].arg)]
            /\ errorLog' = IF HistoryIndexError(RemoteDetail(futures[k].arg))
                           THEN errorLog \cup {<<"detail", packages[k].id>>}
                           ELSE errorLog
       ELSE /\ packages' = packages
            /\ errorLog' = errorLog \cup {<<"detail", packages[k].id>>}
    /\ pc' = PcAfterDetailJoin(futures[k].st)
    /\ UNCHANGED <<variant, load_history, remoteTotal, probe, max_pages,
                   liveExecutors, batch_i, pagesSubmitted, detailSubmitted,
                   pageOutcome, output>>
    /\ UNCHANGED <<authVars, requestLog, fnVars>>

\* The detail loop of this batch has yielded every future and the with
\* block's shutdown(wait=True) has returned.
BatchDrainedEarly ==
    \E k \in BatchKeys(batch_i, Len(packages)) : detailOutcome[k] # "none"
BatchDrained == DOMAIN futures = {}

\* for i in range(0, total_packages, BATCH_SIZE): next i, or the loop ends.
ExitBatchPool ==
    /\ pc = "batch"
    /\ BatchDrained
    /\ liveExecutors' = liveExecutors - 1
    /\ batch_i' = batch_i + BATCH_SIZE
    /\ pc' = IF batch_i + BATCH_SIZE < Len(packages) THEN "batch_submit" ELSE "write"
    /\ UNCHANGED <<variant, load_history, remoteTotal, probe, max_pages, futures,
                   packages, pagesSubmitted, detailSubmitted, pageOutcome,
                   detailOutcome, errorLog, output>>
    /\ UNCHANGED <<authVars, requestLog, fnVars>>

\* ---- the report writer --------------------------------------------------
RECURSIVE PackageRows(_)
\* inactive CSV / history JSON: one row (object) per package
PackageRows(pkgs) ==
    IF pkgs = <<>> THEN <<>>
    ELSE <<[pkg |-> Head(pkgs).id, lab |-> 0]>> \o PackageRows(Tail(pkgs))

RECURSIVE LabRows(_)
\* lab_results.extend([... for lab_result in pkg["_labresults"]])
LabRows(pkgs) ==
    IF pkgs = <<>> THEN <<>>
    ELSE [j \in 1..Len(Head(pkgs).detail) |->
             [pkg |-> Head(pkgs).id, lab |-> Head(pkgs).detail[j].n]]
         \o LabRows(Tail(pkgs))

\* pkg["_labresults"] raises KeyError for a package without the key.
LabKeyError(pkgs) == \E k \in 1..Len(pkgs) : ~pkgs[k].has_detail

\* `if packages:` of the two write_to_csv; the else branch only logs
\* "No ... packages found for the selected license."
CsvWrittenAlways(pkgs) == TRUE
CsvWritten(pkgs) == pkgs # <<>>

\* write_to_csv / write_to_json; an exception other than IOError reaches
\* main's `except Exception`.
WriteReport ==
    /\ pc = "write"
    /\ CASE variant = "history" ->
              /\ output' = [written |-> TRUE, kind |-> "json",
                            rows |-> PackageRows(packages)]
              /\ pc' = "done"
         [] variant = "inactive" ->
              /\ output' = IF CsvWritten(packages)
                           THEN [written |-> TRUE, kind |-> "csv",
                                 rows |-> PackageRows(packages)]
                           ELSE output
              /\ pc' = "done"
         [] OTHER ->
              IF ~CsvWritten(packages)
              THEN output' = output /\ pc' = "done"
              ELSE IF LabKeyError(packages)
                   THEN output' = output /\ pc' = "error"
                   ELSE /\ output' = [written |-> TRUE, kind |-> "csv",
                                      rows |-> LabRows(packages)]
                        /\ pc' = "done"
    /\ UNCHANGED <<variant, load_history, remoteTotal, probe, max_pages, futures,
                   liveExecutors, packages, batch_i, pagesSubmitted,
                   detailSubmitted, pageOutcome, detailOutcome, errorLog>>
    /\ UNCHANGED <<authVars, requestLog, fnVars>>

Next ==
    \/ ProbeAttempt
    \/ SubmitPages
    \/ \E k \in DOMAIN futures : StartTask(k)
    \/ \E k \in DOMAIN futures : TaskRun(k)
    \/ \E p \in DOMAIN futures : JoinPage(p)
    \/ ExitPagePool
    \/ SubmitBatch
    \/ \E k \in DOMAIN futures : JoinDetail(k)
    \/ ExitBatchPool
    \/ WriteReport

Spec == Init /\ [][Next]_vars

\* A whole run of main: authentication, license selection, then the
\* pipeline above or the search.
NextRun ==
    \/ ObtainAccessToken
    \/ RetrieveLicenses
    \/ SelectLicenseStep
    \/ ExecuteSearch
    \/ Next

SpecRun == InitRun /\ [][NextRun]_vars

\* ---- properties ----------------------------------------------------------
\* The page loop is over (the probe returned and every page future was joined).
PagesDone ==
    /\ probe.st = "returned"
    /\ pc \notin {"probe", "submit_pages", "pages"}

\* The script runs the detail joiner.
JoinerRuns ==
    \/ variant \in {"history", "labresults"}
    \/ variant = "inactive" /\ load_history

\* Number of positions of the list that hold the record with this id.
Occurrences(id) == Cardinality({k \in 1..Len(packages) : packages[k].id = id})

\* The ids page p holds on the remote.
PageIds(p) == {RemotePage(p, PAGE_SIZE)[j] : j \in 1..Len(RemotePage(p, PAGE_SIZE))}

BatchOf(k) == (k - 1) \div BATCH_SIZE

\* C1: when the probe and every page fetch succeeded, the aggregated list
\* holds every record of the remote collection exactly once, whatever the
\* order in which the page futures completed.
C1_EveryRecordExactlyOnce ==
    (PagesDone /\ \A p \in DOMAIN pageOutcome : pageOutcome[p] = "returned")
        => /\ Len(packages) = remoteTotal
           /\ \A id \in 1..remoteTotal : Occurrences(id) = 1

\* C1 witness: a full collection aggregated in an order other than page order.
C1_Witness ==
    /\ pc = "done"
    /\ remoteTotal = MaxTotal
    /\ \A p \in DOMAIN pageOutcome : pageOutcome[p] = "returned"
    /\ Len(packages) = MaxTotal
    /\ packages[1].id # 1

\* C2: max_pages is ceil(total / PAGE_SIZE), exactly one page task is
\* submitted for each index 1..max_pages and for no other, and a total of 0
\* submits no page task and leaves the aggregated list empty.
C2_PageTasksMatchCeil ==
    (probe.st = "returned" /\ pc # "submit_pages")
        => /\ max_pages * PAGE_SIZE >= remoteTotal
           /\ (max_pages - 1) * PAGE_SIZE < remoteTotal
           /\ Len(pagesSubmitted) = max_pages
           /\ \A i \in 1..Len(pagesSubmitted) : pagesSubmitted[i] = i
           /\ remoteTotal = 0 => pagesSubmitted = <<>> /\ packages = <<>>

\* C2 witness: total = PAGE_SIZE + 1 gave two page tasks and the run ended.
C2_Witness ==
    /\ pc = "done"
    /\ remoteTotal = PAGE_SIZE + 1
    /\ pagesSubmitted = <<1, 2>>

\* C3 (as claimed): a request raises its fatal error only after the first
\* attempt and MAX_RETRIES further attempts, i.e. MAX_RETRIES + 1 GETs.
C3_RaisesAfterMaxRetriesReattempts ==
    /\ probe.st = "raised" => probe.gets = MAX_RETRIES + 1
    /\ \A k \in DOMAIN futures :
          futures[k].st = "raised" => futures[k].gets = MAX_RETRIES + 1

\* C4: after the page loop the list holds exactly the records of the pages
\* that returned, every page was submitted once and never again, every
\* raised page is in the error log, and the run went on to the following
\* phase: it ends in error only in the lab-results writer, after the joiner.
C4_PageFailureIsolated ==
    PagesDone =>
        /\ \A p \in DOMAIN pageOutcome :
              /\ pageOutcome[p] \in {"returned", "raised"}
              /\ Cardinality({i \in 1..Len(pagesSubmitted) : pagesSubmitted[i] = p}) = 1
              /\ (pageOutcome[p] = "raised") <=> (<<"page", p>> \in errorLog)
              /\ \A id \in PageIds(p) :
                    Occurrences(id) = IF pageOutcome[p] = "returned" THEN 1 ELSE 0
        /\ \A k \in 1..Len(packages) :
              \E p \in DOMAIN pageOutcome : packages[k].id \in PageIds(p)
        /\ pc = "error" =>
              /\ variant = "labresults"
              /\ liveExecutors = 0
              /\ packages # <<>>
              /\ batch_i >= Len(packages)

\* C4 witness: one page raised, another returned, and the report was written.
C4_Witness ==
    /\ pc = "done"
    /\ output.written
    /\ \E p, q \in DOMAIN pageOutcome :
          pageOutcome[p] = "raised" /\ pageOutcome[q] = "returned"
    /\ packages # <<>>

\* C5: a record whose detail task raised is in the error log and has no
\* detail key, a record whose detail task returned has the key, and a raised
\* detail task does not end the run: the inactive and history exports never
\* end in error after the probe, and the lab-results export reaches its
\* writer only after every detail task of every batch was joined.
C5_DetailFailureIsolated ==
    /\ \A k \in DOMAIN detailOutcome :
        /\ detailOutcome[k] = "raised" =>
              ~packages[k].has_detail /\ <<"detail", packages[k].id>> \in errorLog
        /\ detailOutcome[k] = "returned" => packages[k].has_detail
        /\ detailOutcome[k] = "none" => ~packages[k].has_detail
    /\ (pc = "error" /\ probe.st = "returned") =>
          /\ variant = "labresults"
          /\ \A k \in DOMAIN detailOutcome : detailOutcome[k] # "none"
    /\ (pc \in {"write", "done"} /\ JoinerRuns) =>
          \A k \in DOMAIN detailOutcome : detailOutcome[k] # "none"

\* C5 witness: in one batch a detail task raised and another returned, and
\* the inactive / history report was still written.
C5_Witness ==
    /\ pc = "done"
    /\ variant \in {"inactive", "history"}
    /\ output.written
    /\ \E k, j \in DOMAIN detailOutcome :
          /\ BatchOf(k) = BatchOf(j)
          /\ detailOutcome[k] = "raised"
          /\ detailOutcome[j] = "returned"
          /\ packages[j].has_detail

\* The packages that carry the detail key.
WithDetail == SelectSeq(packages, LAMBDA x : x.has_detail)

\* C6 (as claimed): in the lab-results export a run that fetched packages
\* ends with the CSV written, holding the rows of every package whose
\* detail fetch succeeded, even when another package's detail fetch failed.
C6_LabCsvWrittenDespiteFailure ==
    (variant = "labresults" /\ pc \in {"done", "error"} /\ PagesDone
        /\ WithDetail # <<>>)
        => output.written /\ output.rows = LabRows(WithDetail)

\* C7: while a detail batch is submitted or running, every record of an
\* earlier batch has had its detail task finished and joined.
C7_BatchesNotOverlapped ==
    pc \in {"batch_submit", "batch"} =>
        \A k \in DOMAIN futures : \A j \in 1..Len(packages) :
            BatchOf(j) < BatchOf(k) =>
                j \notin DOMAIN futures /\ detailOutcome[j] # "none"

\* C7 witness: a task of a later batch is in flight.
C7_Witness ==
    /\ pc = "batch"
    /\ batch_i > 0
    /\ \E k \in Running : BatchOf(k) > 0

\* HTTP requests in flight: the GETs of the workers and of the main thread.
InFlight == Cardinality(Running) + (IF pc = "probe" THEN 1 ELSE 0)

SubmittedUpTo ==
    IF pc = "batch" THEN Min(batch_i + BATCH_SIZE, Len(packages))
    ELSE Min(batch_i, Len(packages))

\* C9: the batches are consecutive slices of at most BATCH_SIZE records,
\* the detail tasks submitted so far are one per record of those slices in
\* list order, each with that record's id, and once the joiner has finished
\* there is exactly one detail task per record.
C9_OneDetailTaskPerRecord ==
    (PagesDone /\ (pc = "error" => variant = "labresults")) =>
        /\ batch_i % BATCH_SIZE = 0
        /\ pc = "batch" =>
              /\ DOMAIN futures \subseteq (batch_i + 1)..(batch_i + BATCH_SIZE)
              /\ batch_i < Len(packages)
        /\ Len(detailSubmitted) = SubmittedUpTo
        /\ \A k \in 1..Len(detailSubmitted) : detailSubmitted[k] = packages[k].id
        /\ (JoinerRuns /\ pc \in {"write", "done", "error"}) =>
              Len(detailSubmitted) = Len(packages)
        /\ ~JoinerRuns => detailSubmitted = <<>>

\* C9 witness: the joiner went through a list that is not a whole number of
\* batches and is not in id order.
C9_Witness ==
    /\ pc = "done"
    /\ JoinerRuns
    /\ Len(packages) > BATCH_SIZE
    /\ Len(packages) % BATCH_SIZE # 0
    /\ packages[1].id # 1
    /\ Len(detailSubmitted) = Len(packages)

\* C10: the detail attached to a record is the response to the request made
\* with that record's own id, and every pending detail task carries the id
\* of the record it is mapped to.
C10_DetailBelongsToRecord ==
    /\ \A k \in 1..Len(packages) :
          packages[k].has_detail => packages[k].detail = RemoteDetail(packages[k].id)
    /\ pc \in {"batch"} =>
          \A k \in DOMAIN futures : futures[k].arg = packages[k].id

\* C10 witness: in one batch the later record was joined before the earlier
\* one, whose task is still pending.
C10_Witness ==
    /\ pc = "batch"
    /\ \E k, j \in 1..Len(packages) :
          /\ k < j
          /\ BatchOf(k) = BatchOf(j)
          /\ k \in DOMAIN futures
          /\ packages[j].has_detail
          /\ packages[j].detail # <<>>
          /\ packages[j].id < packages[k].id

\* ---- the whole run --------------------------------------------------------
\* A request of generate_report / load_items / execute_search was issued.
RequestIssued == requestLog # {} \/ probe.gets > 0 \/ pagesSubmitted # <<>>

\* The detail joiner has started.
JoinerStarted ==
    \/ pc \in {"batch_submit", "batch"}
    \/ detailSubmitted # <<>>
    \/ \E r \in requestLog : r.kind = "detail"

\* The writer has been entered.
WriterStarted == pc = "write" \/ output.written

\* C11: the phases of a run are strictly ordered. No probe or page request is
\* issued before a token was obtained and a license selected; the detail
\* joiner starts only once the probe returned and every page task was
\* submitted, completed and joined; the writer runs only once every detail
\* task was completed and joined and no executor is alive.
C11_PhasesStrictlyOrdered ==
    /\ pc \in {"auth", "licenses", "select"} => ~RequestIssued
    /\ RequestIssued =>
          access_token # "" /\ licenses # <<>> /\ current_license \in 1..Len(licenses)
    /\ (pagesSubmitted # <<>> \/ pc = "pages") => probe.st = "returned"
    /\ JoinerStarted =>
          /\ probe.st = "returned"
          /\ Len(pagesSubmitted) = max_pages
          /\ \A p \in DOMAIN pageOutcome : pageOutcome[p] # "none"
          /\ \A k \in DOMAIN futures :
                pc = "batch" /\ k \in 1..Len(packages)
    /\ WriterStarted =>
          /\ probe.st = "returned"
          /\ \A p \in DOMAIN pageOutcome : pageOutcome[p] # "none"
          /\ DOMAIN futures = {} /\ liveExecutors = 0
          /\ JoinerStarted => \A k \in DOMAIN detailOutcome : detailOutcome[k] # "none"
          /\ Len(detailSubmitted) \in {0, Len(packages)}

\* C11 witness: a run that chose the second license went through all five
\* phases: two page tasks, detail tasks, and a written report.
C11_Witness ==
    /\ pc = "done"
    /\ current_license = 2
    /\ Len(pagesSubmitted) = 2
    /\ \E r \in requestLog : r.kind = "detail"
    /\ output.written

\* What was typed does not name a license of the list.
InvalidSelection ==
    \/ ~selection.numeric
    \/ selection.n < 1
    \/ selection.n > Len(licenses)

\* C12: when no access token is obtained, or the license list is empty, or
\* the selection is non-numeric or outside 1..n, the run aborts: it issues
\* no probe, page, detail or search request and writes no output file.
C12_AbortsWithoutTokenOrLicense ==
    (\/ pc # "auth" /\ access_token = ""
     \/ pc \notin {"auth", "licenses"} /\ licenses = <<>>
     \/ pc \notin {"auth", "licenses", "select"} /\ InvalidSelection)
        => /\ pc \in {"aborted", "request_error"}
           /\ ~RequestIssued
           /\ current_license = 0
           /\ detailSubmitted = <<>>
           /\ ~output.written

\* C12 witness: a numeral one past the end of a two-license list was typed
\* and the run returned.
C12_Witness ==
    /\ pc = "aborted"
    /\ access_token # ""
    /\ Len(licenses) = 2
    /\ selection = [numeric |-> TRUE, n |-> 3]

\* C13 (as claimed): every request issued after the selection (probe, page,
\* detail, search) carries as its licenseNumber parameter the licenseNumber
\* of the selected license.
C13_RequestsCarrySelectedLicense ==
    \A r \in requestLog :
        r.licenseNumber =
            [is |-> "str",
             licenseNumber |-> licenses[current_license].licenseNumber]

\* C14: the retry state is local to each make_request_with_retries call. A
\* call raises only after MAX_RETRIES failed GETs of its own and returns at
\* its own first successful GET, whatever the other calls and the probe went
\* through; a task not yet run has used no attempt; and the loop over the
\* futures is left only when every submitted task was attempted and joined,
\* also after a task exhausted its retries.
C14_RetryStateLocal ==
    /\ \A k \in DOMAIN futures :
          LET r == futures[k] IN
          /\ r.st \in {"queued", "running"} => r.gets = 0 /\ r.retries = 0
          /\ r.st = "returned" => r.gets = r.retries + 1 /\ r.retries < MAX_RETRIES
          /\ r.st = "raised" => r.gets = MAX_RETRIES /\ r.retries = MAX_RETRIES
    /\ pc \notin {"pages", "batch"} => DOMAIN futures = {}
    /\ (PagesDone /\ \E p \in DOMAIN pageOutcome : pageOutcome[p] = "raised")
          => \A p \in DOMAIN pageOutcome : pageOutcome[p] # "none"
    /\ (pc \in {"write", "done", "error"} /\ PagesDone
            /\ \E k \in DOMAIN detailOutcome : detailOutcome[k] = "raised")
          => \A k \in DOMAIN detailOutcome : detailOutcome[k] # "none"

\* C14 witness: a task exhausted its retries, and a task started after it
\* returned at its first GET after the probe had needed a retry.
C14_Witness ==
    /\ probe.retries > 0
    /\ \E k, j \in DOMAIN futures :
          /\ k < j
          /\ futures[k].st = "raised"
          /\ futures[j].st = "returned"
          /\ futures[j].gets = 1

\* C15 (as claimed): with zero total records the writer produces an output
\* file, in the CSV exports (inactive, lab results) as in the JSON export.
C15_ZeroRecordsFileWritten ==
    (pc = "done" /\ remoteTotal = 0
        /\ variant \in {"inactive", "history", "labresults"})
        => output.written

\* C15 (amended): with an empty aggregated list the writer never raises and
\* the run ends normally; the JSON export writes a file holding the empty
\* list, the two CSV exports log that no package was found and write no file.
C15_ZeroRecordsNoError ==
    (pc \in {"done", "error"} /\ PagesDone /\ packages = <<>>
        /\ variant \in {"inactive", "history", "labresults"})
        => /\ pc = "done"
           /\ variant = "history" =>
                 output = [written |-> TRUE, kind |-> "json", rows |-> <<>>]
           /\ variant \in {"inactive", "labresults"} => output = NoOutput

\* C15 witness: the lab-results export of an empty collection ended without
\* a file.
C15_Witness ==
    /\ pc = "done"
    /\ variant = "labresults"
    /\ remoteTotal = 0
    /\ probe.st = "returned"
    /\ ~output.written

\* ---- extract_initial_package_quantity_and_unit_or_null --------------------
\* A description is the sequence of its characters.
Digits == {"0", "1", "2", "3", "4", "5", "6", "7", "8", "9"}
\* [0-9,.]
QuantityChars == Digits \cup {",", "."}
Letters ==
    {"a", "b", "c", "d", "e", "f", "g", "h", "i", "j", "k", "l", "m"} \cup
    {"n", "o", "p", "q", "r", "s", "t", "u", "v", "w", "x", "y", "z"} \cup
    {"A", "B", "C", "D", "E", "F", "G", "H", "I", "J", "K", "L", "M"} \cup
    {"N", "O", "P", "Q", "R", "S", "T", "U", "V", "W", "X", "Y", "Z"}
\* [a-zA-Z\s]
UnitChars == Letters \cup {" "}

s_Packaged == <<"P", "a", "c", "k", "a", "g", "e", "d", " ">>
s_Repackaged == <<"R", "e", "p", "a", "c", "k", "a", "g", "e", "d", " ">>
s_Harvested == <<"H", "a", "r", "v", "e", "s", "t", "e", "d", " ">>
s_lowerPackaged == <<"p", "a", "c", "k", "a", "g", "e", "d", " ">>
s_of == <<" ", "o", "f">>
s_plant == <<" ", "p", "l", "a", "n", "t">>

\* The descriptions explored: a prefix, a numeral, a tail.
Prefixes == {s_Packaged, s_Repackaged, s_Harvested, s_lowerPackaged}
Numerals ==
    {<<"5", ".", "0">>,
     <<"5">>,
     <<"3">>,
     <<"2">>,
     <<"1", ",", "0", "0", "0">>,
     <<"0", ".", "5", "0">>,
     <<".", "5">>,
     <<".">>,
     <<"1", ".", "2", ".", "3">>,
     <<",">>,
     <<>>}
Tails ==
    {<<" ", "G", "r", "a", "m", "s", " ", "o", "f", " ", "F", "l", "o", "w", "e", "r">>,
     <<" ", "p", "l", "a", "n", "t", "s">>,
     <<" ", "p", "l", "a", "n", "t">>,
     <<" ", "G", "r", "a", "m", "s">>,
     <<"p", "l", "a", "n", "t", "s">>,
     <<" ", "o", "f">>,
     <<" ", "F", "l", "u", "i", "d", " ", "O", "u", "n", "c", "e", "s", " ", "o", "f", " ", "O", "i", "l">>,
     <<" ", "a", " ", "o", "f", " ", "b", " ", "o", "f", " ", "c">>,
     <<" ", "p", "l", "a", "n", "t", "s", " ", "o", "f", " ", "K", "u", "s", "h">>,
     <<" ", "G", "r", "a", "m", "s", " ", "o", "f">>,
     <<>>, <<"f", "r", "o", "m", " ", "p", "l", "a", "n", "t">>}
Descriptions == {p \o n \o t : p \in Prefixes, n \in Numerals, t \in Tails}

\* description[i:].startswith(lit), positions counted from 1
StartsWithAt(d, i, l) ==
    /\ i + Len(l) - 1 <= Len(d)
    /\ \A j \in 1..Len(l) : d[i + j - 1] = l[j]

\* Last position of the longest run of characters of class C that starts at
\* position i (i - 1 when d[i] is not in C).
RunEnd(d, i, C) ==
    LET E == {e \in (i - 1)..Len(d) : \A j \in i..e : d[j] \in C}
    IN  CHOOSE e \in E : \A x \in E : x <= e

Slice(d, i, e) == [j \in 1..(e - i + 1) |-> d[i + j - 1]]

NoMatch == [matched |-> FALSE, g1 |-> <<>>, g2 |-> <<>>]

\* re.match(r"^<prefix>([0-9,.]+)", d): the last position of group 1, which
\* is greedy and followed in all three patterns by a space; 0 without match.
QuantityEnd(d, prefix) ==
    IF ~StartsWithAt(d, 1, prefix) THEN 0
    ELSE LET e == RunEnd(d, Len(prefix) + 1, QuantityChars) IN
         IF e >= Len(prefix) + 1 THEN e ELSE 0

\* re.match(r"^Packaged ([0-9,.]+) ([a-zA-Z\s]+) of", description): group 2
\* is greedy, so it ends at the last " of" its run of letters and whitespace
\* reaches.
quantity_unit_matcher(d) ==
    LET e1 == QuantityEnd(d, s_Packaged) IN
    IF e1 = 0 \/ ~StartsWithAt(d, e1 + 1, <<" ">>) THEN NoMatch
    ELSE LET s2 == e1 + 2
             m == RunEnd(d, s2, UnitChars)
             E == {e \in s2..m : StartsWithAt(d, e + 1, s_of)}
         IN  IF E = {} THEN NoMatch
             ELSE [matched |-> TRUE,
                   g1 |-> Slice(d, Len(s_Packaged) + 1, e1),
                   g2 |-> Slice(d, s2, CHOOSE e \in E : \A x \in E : x <= e)]

\* re.match(r"^Packaged ([0-9,.]+) plant", description) and
\* re.match(r"^Repackaged ([0-9,.]+) plant", description)
PlantMatch(d, prefix) ==
    LET e1 == QuantityEnd(d, prefix) IN
    IF e1 = 0 \/ ~StartsWithAt(d, e1 + 1, s_plant) THEN NoMatch
    ELSE [matched |-> TRUE, g1 |-> Slice(d, Len(prefix) + 1, e1), g2 |-> <<>>]

plant_match(d) == PlantMatch(d, s_Packaged)
repackaged_plant_match(d) == PlantMatch(d, s_Repackaged)

\* group(1).replace(",", "")
ReplaceCommas(t) == SelectSeq(t, LAMBDA c : c # ",")

DigitValue(c) ==
    CASE c = "0" -> 0 [] c = "1" -> 1 [] c = "2" -> 2 [] c = "3" -> 3
      [] c = "4" -> 4 [] c = "5" -> 5 [] c = "6" -> 6 [] c = "7" -> 7
      [] c = "8" -> 8 [] c = "9" -> 9

RECURSIVE DigitsValue(_)
DigitsValue(t) ==
    IF t = <<>> THEN 0
    ELSE 10 * DigitsValue(SubSeq(t, 1, Len(t) - 1)) + DigitValue(t[Len(t)])

RECURSIVE Normalized(_)
\* The same number without trailing zeros of the fraction.
Normalized(q) ==
    IF q.scale > 0 /\ q.num % 10 = 0
    THEN Normalized([num |-> q.num \div 10, scale |-> q.scale - 1])
    ELSE q

\* float(t) for a text of digits and dots: the number num / 10^scale, or
\* ValueError when t has no digit or more than one dot.
FloatIsValueError(t) ==
    \/ Cardinality({i \in 1..Len(t) : t[i] = "."}) > 1
    \/ \A i \in 1..Len(t) : t[i] \notin Digits
Float(t) ==
    LET dot == {i \in 1..Len(t) : t[i] = "."}
        scale == IF dot = {} THEN 0 ELSE Len(t) - (CHOOSE i \in dot : TRUE)
    IN  Normalized([num |-> DigitsValue(SelectSeq(t, LAMBDA c : c # ".")),
                    scale |-> scale])

None == [kind |-> "None", quantity |-> [num |-> 0, scale |-> 0], unit |-> <<>>]
ValueError == [kind |-> "ValueError", quantity |-> [num |-> 0, scale |-> 0], unit |-> <<>>]

\* return float(group(1).replace(",", "")), unit
QuantityAndUnit(g1, unit) ==
    LET t == ReplaceCommas(g1) IN
    IF FloatIsValueError(t) THEN ValueError
    ELSE [kind |-> "tuple", quantity |-> Float(t), unit |-> unit]

s_Each == <<"E", "a", "c", "h">>

extract_initial_package_quantity_and_unit_or_null(description) ==
    IF quantity_unit_matcher(description).matched
    THEN QuantityAndUnit(quantity_unit_matcher(description).g1,
                         quantity_unit_matcher(description).g2)
    ELSE IF plant_match(description).matched
    THEN QuantityAndUnit(plant_match(description).g1, s_Each)
    ELSE IF repackaged_plant_match(description).matched
    THEN QuantityAndUnit(repackaged_plant_match(description).g1, s_Each)
    ELSE None

\* The function applied to one description.
InitExtract ==
    /\ variant = "inactive"
    /\ load_history = TRUE
    /\ remoteTotal = 0
    /\ pc = "call"
    /\ access_token = "token"
    /\ licenses = LicenseList(1)
    /\ selection = [numeric |-> TRUE, n |-> 1]
    /\ current_license = 1
    /\ PipelineIdle
    /\ fn_in \in Descriptions
    /\ fn_out = <<>>

Extract ==
    /\ pc = "call"
    /\ pc' = "returned"
    /\ fn_out' = extract_initial_package_quantity_and_unit_or_null(fn_in)
    /\ UNCHANGED <<variant, load_history, remoteTotal, probe, max_pages, futures,
                   liveExecutors, packages, batch_i, pagesSubmitted,
                   detailSubmitted, pageOutcome, detailOutcome, errorLog, output>>
    /\ UNCHANGED <<authVars, requestLog, fn_in>>

SpecExtract == InitExtract /\ [][Extract]_vars

\* The pattern, 1 to 3 in the order the function tries them, that first
\* matches the description; 0 when none does.
FirstMatching(d) ==
    CASE quantity_unit_matcher(d).matched -> 1
      [] plant_match(d).matched -> 2
      [] repackaged_plant_match(d).matched -> 3
      [] OTHER -> 0

Tuple(num, scale, unit) ==
    [kind |-> "tuple", quantity |-> [num |-> num, scale |-> scale], unit |-> unit]

\* C16 (as claimed): the function returns (5.0, "Grams") for "Packaged 5.0
\* Grams of Flower", (3.0, "Each") for "Packaged 3 plants", (2.0, "Each")
\* for "Repackaged 2 plants", None for "Harvested from plant", and in
\* general a (quantity, unit) tuple of the first pattern that matches at the
\* start of the description, None exactly when none matches.
C16_ReturnsFirstMatchingPattern ==
    pc = "returned" =>
        /\ fn_in = s_Packaged \o <<"5", ".", "0", " ", "G", "r", "a", "m", "s", " ", "o", "f", " ", "F", "l", "o", "w", "e", "r">>
              => fn_out = Tuple(5, 0, <<"G", "r", "a", "m", "s">>)
        /\ fn_in = s_Packaged \o <<"3", " ", "p", "l", "a", "n", "t", "s">> => fn_out = Tuple(3, 0, s_Each)
        /\ fn_in = s_Repackaged \o <<"2", " ", "p", "l", "a", "n", "t", "s">> => fn_out = Tuple(2, 0, s_Each)
        /\ fn_in = s_Harvested \o <<"f", "r", "o", "m", " ", "p", "l", "a", "n", "t">> => fn_out = None
        /\ FirstMatching(fn_in) = 0 <=> fn_out = None
        /\ FirstMatching(fn_in) # 0 => fn_out.kind = "tuple"
        /\ FirstMatching(fn_in) \in {2, 3} => fn_out.unit = s_Each

\* ---- the body of the history joiner ---------------------------------------
\* Descriptions a history entry may carry.
EntryDescriptions ==
    {s_Packaged \o <<"5", ".", "0", " ", "G", "r", "a", "m", "s", " ", "o", "f", " ", "F", "l", "o", "w", "e", "r">>,
     s_Packaged \o <<"3", " ", "p", "l", "a", "n", "t", "s">>,
     s_Repackaged \o <<"2", " ", "p", "l", "a", "n", "t", "s">>,
     s_Harvested \o <<"f", "r", "o", "m", " ", "p", "l", "a", "n", "t">>,
     s_Packaged \o <<"1", ".", "2", ".", "3", " ", "G", "r", "a", "m", "s", " ", "o", "f", " ", "F", "l", "o", "w", "e", "r">>,
     s_Repackaged \o <<".", " ", "p", "l", "a", "n", "t", "s">>}

\* A history entry: without the "descriptions" key, or with a list of up to
\* two descriptions.
HistoryEntries ==
    {[has_descriptions |-> FALSE, descriptions |-> <<>>],
     [has_descriptions |-> TRUE, descriptions |-> <<>>]} \cup
    {[has_descriptions |-> TRUE, descriptions |-> <<d>>] : d \in EntryDescriptions} \cup
    {[has_descriptions |-> TRUE, descriptions |-> <<d, e>>] :
        d \in EntryDescriptions, e \in {s_Packaged \o <<"3", " ", "p", "l", "a", "n", "t", "s">>}}

\* What future.result() yields: a falsy payload, or a payload whose "data"
\* is a list of up to two entries.
HistoryResults ==
    {[truthy |-> FALSE, data |-> <<>>]} \cup
    {[truthy |-> TRUE, data |-> <<>>]} \cup
    {[truthy |-> TRUE, data |-> <<a>>] : a \in HistoryEntries} \cup
    {[truthy |-> TRUE, data |-> <<a, b>>] : a, b \in HistoryEntries}

\* The package before its future is joined.
BarePackage ==
    [has_history |-> FALSE, _history |-> <<>>, has_initial |-> FALSE,
     initialQuantity |-> [num |-> 0, scale |-> 0], initialUnit |-> <<>>,
     error_logged |-> FALSE]

\* package["initialQuantity"], package["initialUnit"] = initial_quantity_and_unit
SetInitial(package, r) ==
    IF r.kind = "tuple"
    THEN [package EXCEPT !.has_initial = TRUE, !.initialQuantity = r.quantity,
                         !.initialUnit = r.unit]
    ELSE package

\* The try block of the as_completed loop of fetch_package_histories for one
\* package: package["_history"][0] raises IndexError on an empty list and
\* the extraction may raise ValueError; both are caught by `except
\* Exception`, which logs.
JoinHistoryBody(package, history) ==
    IF ~history.truthy THEN package
    ELSE LET attached == [package EXCEPT !.has_history = TRUE,
                                         !._history = history.data]
         IN  IF history.data = <<>>
             THEN [attached EXCEPT !.error_logged = TRUE]
             ELSE IF ~history.data[1].has_descriptions
                     \/ history.data[1].descriptions = <<>>
             THEN attached
             ELSE LET r == extract_initial_package_quantity_and_unit_or_null(
                               history.data[1].descriptions[1])
                  IN  IF r.kind = "ValueError"
                      THEN [attached EXCEPT !.error_logged = TRUE]
                      ELSE SetInitial(attached, r)

InitJoinHistory ==
    /\ variant = "inactive"
    /\ load_history = TRUE
    /\ remoteTotal = 0
    /\ pc = "join"
    /\ access_token = "token"
    /\ licenses = LicenseList(1)
    /\ selection = [numeric |-> TRUE, n |-> 1]
    /\ current_license = 1
    /\ PipelineIdle
    /\ fn_in \in HistoryResults
    /\ fn_out = BarePackage

JoinHistory ==
    /\ pc = "join"
    /\ pc' = "joined"
    /\ fn_out' = JoinHistoryBody(fn_out, fn_in)
    /\ UNCHANGED <<variant, load_history, remoteTotal, probe, max_pages, futures,
                   liveExecutors, packages, batch_i, pagesSubmitted,
                   detailSubmitted, pageOutcome, detailOutcome, errorLog, output>>
    /\ UNCHANGED <<authVars, requestLog, fn_in>>

SpecJoinHistory == InitJoinHistory /\ [][JoinHistory]_vars

\* The first history entry has a first description.
HasFirstDescription(history) ==
    /\ history.truthy
    /\ history.data # <<>>
    /\ history.data[1].has_descriptions
    /\ history.data[1].descriptions # <<>>

\* C17 (as claimed): the joiner sets initialQuantity / initialUnit exactly
\* when the first description of the first history entry matches one of the
\* patterns; when nothing matches, or the first entry has no descriptions,
\* both stay absent while _history stays attached.
C17_InitialSetExactlyOnMatch ==
    (pc = "joined" /\ fn_in.truthy) =>
        /\ fn_out.has_history /\ fn_out._history = fn_in.data
        /\ fn_out.has_initial <=>
              /\ HasFirstDescription(fn_in)
              /\ FirstMatching(fn_in.data[1].descriptions[1]) # 0

\* ---- flatten_dict ---------------------------------------------------------
\* A dict is the sequence of its (key, value) items in insertion order, with
\* pairwise distinct keys; a key is the sequence of its characters; a value
\* is a leaf or a dict.
Leaf(x) == [is_dict |-> FALSE, v |-> x, items |-> <<>>]
Mapping(d) == [is_dict |-> TRUE, v |-> 0, items |-> d]

FlattenKeys == {<<"a">>, <<"b">>, <<"a", ".", "b">>, <<>>}
LeafValues == {Leaf(1), Leaf(2)}

\* The dicts of at most one item / at most two items whose values are in V.
UpToOneItem(V) == {<<>>} \cup {<<<<k, x>>>> : k \in FlattenKeys, x \in V}
UpToTwoItems(V) ==
    UpToOneItem(V) \cup
    {<<<<k, x>>, <<l, y>>>> : k \in FlattenKeys, l \in FlattenKeys, x \in V, y \in V}
DistinctKeys(d) == \A i, j \in 1..Len(d) : d[i][1] = d[j][1] => i = j

InnerDicts == UpToOneItem(LeafValues)
MiddleDicts ==
    {d \in UpToTwoItems(LeafValues \cup {Mapping(e) : e \in InnerDicts}) :
        DistinctKeys(d)}
\* The records explored: nested up to three levels.
FlattenInputs ==
    MiddleDicts \cup
    {<<<<k, Mapping(d)>>>> : k \in FlattenKeys, d \in MiddleDicts}

\* new_key = f"{parent_key}{sep}{k}" if parent_key else k
NewKeyAlwaysJoined(parent_key, k) == parent_key \o <<".">> \o k
NewKey(parent_key, k) ==
    IF parent_key # <<>> THEN parent_key \o <<".">> \o k ELSE k

\* dict(items) extended by one item: a key already present keeps its
\* position and takes the new value.
Put(d, item) ==
    IF \E i \in 1..Len(d) : d[i][1] = item[1]
    THEN [i \in 1..Len(d) |-> IF d[i][1] = item[1] THEN item ELSE d[i]]
    ELSE Append(d, item)

RECURSIVE DictOf(_)
\* dict(items)
DictOf(items) ==
    IF items = <<>> THEN <<>>
    ELSE Put(DictOf(SubSeq(items, 1, Len(items) - 1)), items[Len(items)])

RECURSIVE flatten_dict(_, _)
RECURSIVE FlattenItems(_, _)
\* The list `items` built by the for loop over d.items().
FlattenItems(d, parent_key) ==
    IF d = <<>> THEN <<>>
    ELSE LET new_key == NewKey(parent_key, Head(d)[1])
             v == Head(d)[2]
         IN  (IF v.is_dict THEN flatten_dict(v.items, new_key)
                           ELSE <<<<new_key, v>>>>)
             \o FlattenItems(Tail(d), parent_key)

flatten_dict(d, parent_key) == DictOf(FlattenItems(d, parent_key))

InitFlatten ==
    /\ variant = "inactive"
    /\ load_history = FALSE
    /\ remoteTotal = 0
    /\ pc = "call"
    /\ access_token = "token"
    /\ licenses = LicenseList(1)
    /\ selection = [numeric |-> TRUE, n |-> 1]
    /\ current_license = 1
    /\ PipelineIdle
    /\ fn_in \in FlattenInputs
    /\ fn_out = <<>>

\* flatten_dict(d=x)
Flatten ==
    /\ pc = "call"
    /\ pc' = "returned"
    /\ fn_out' = flatten_dict(fn_in, <<>>)
    /\ UNCHANGED <<variant, load_history, remoteTotal, probe, max_pages, futures,
                   liveExecutors, packages, batch_i, pagesSubmitted,
                   detailSubmitted, pageOutcome, detailOutcome, errorLog, output>>
    /\ UNCHANGED <<authVars, requestLog, fn_in>>

\* flatten_dict applied to its own result.
FlattenAgain ==
    /\ pc = "returned"
    /\ pc' = "returned_again"
    /\ fn_in' = fn_out
    /\ fn_out' = flatten_dict(fn_out, <<>>)
    /\ UNCHANGED <<variant, load_history, remoteTotal, probe, max_pages, futures,
                   liveExecutors, packages, batch_i, pagesSubmitted,
                   detailSubmitted, pageOutcome, detailOutcome, errorLog, output>>
    /\ UNCHANGED <<authVars, requestLog>>

NextFlatten == Flatten \/ FlattenAgain

SpecFlatten == InitFlatten /\ [][NextFlatten]_vars

\* d1 == d2 for dicts: the same keys with the same values, in any order.
DictEq(d1, d2) == {d1[i] : i \in 1..Len(d1)} = {d2[i] : i \in 1..Len(d2)}

\* No value of d is a dict.
IsFlat(d) == \A i \in 1..Len(d) : ~d[i][2].is_dict

\* C18: flatten_dict is idempotent, flatten_dict(flatten_dict(d)) equals
\* flatten_dict(d), and a record that is already flat (no mapping-valued
\* entry) is returned unchanged.
C18_FlattenIdempotent ==
    /\ pc = "returned_again" => DictEq(fn_out, fn_in)
    /\ (pc = "returned" /\ IsFlat(fn_in)) => DictEq(fn_out, fn_in)

\* C18 witness: a record nested three levels was flattened twice, and the
\* first flattening had changed it.
C18_Witness ==
    /\ pc = "returned_again"
    /\ fn_out = <<<<<<"b", ".", "a", ".", "a", ".", "b">>, Leaf(2)>>>>

RECURSIVE LeafPaths(_, _)
\* The (key path, value) pairs of the non-mapping leaves of d.
LeafPaths(d, path) ==
    UNION {IF d[i][2].is_dict
           THEN LeafPaths(d[i][2].items, Append(path, d[i][1]))
           ELSE {<<Append(path, d[i][1]), d[i][2]>>} : i \in 1..Len(d)}

RECURSIVE JoinPath(_)
\* "k1.k2.....kn"
JoinPath(path) ==
    IF Len(path) = 1 THEN path[1]
    ELSE JoinPath(SubSeq(path, 1, Len(path) - 1)) \o <<".">> \o path[Len(path)]

\* C19 (as claimed): every non-mapping leaf reached through keys k1..kn is
\* in the output under the key "k1.k2.....kn" with the same value, and the
\* output has no mapping-valued entry and no key that is not the path of a
\* leaf.
C19_LeavesUnderJoinedPaths ==
    pc = "returned" =>
        /\ \A l \in LeafPaths(fn_in, <<>>) :
              \E i \in 1..Len(fn_out) : fn_out[i] = <<JoinPath(l[1]), l[2]>>
        /\ IsFlat(fn_out)
        /\ \A i \in 1..Len(fn_out) :
              \E l \in LeafPaths(fn_in, <<>>) : fn_out[i][1] = JoinPath(l[1])

\* ---- write_to_csv of the inactive export ----------------------------------
\* Flattened records: up to three items over these keys, integer values.
CsvKeys == {<<"i", "d">>, <<"_", "h">>, <<"a", ".", "b">>}
CsvValues == {Leaf(1), Leaf(12)}
CsvRecords ==
    {d \in {<<>>} \cup {<<<<k, x>>>> : k \in CsvKeys, x \in CsvValues} \cup
           {<<<<k, x>>, <<l, y>>>> : k \in CsvKeys, l \in CsvKeys,
                                     x \in CsvValues, y \in CsvValues} \cup
           {<<<<<<"_", "h">>, x>>, <<<<"a", ".", "b">>, y>>, <<<<"i", "d">>, x>>>> :
                x \in CsvValues, y \in CsvValues} :
        /\ DistinctKeys(d)
        /\ \A i \in 1..Len(d) : d[i][1] \in CsvKeys}
\* The list handed to the writer: up to two records.
CsvInputs == {<<>>} \cup {<<a>> : a \in CsvRecords} \cup
             {<<a, b>> : a \in CsvRecords, b \in CsvRecords}

RECURSIVE KeysOf(_)
\* list(d.keys())
KeysOf(d) == IF d = <<>> THEN <<>> ELSE <<Head(d)[1]>> \o KeysOf(Tail(d))

\* key.startswith("_")
StartsWithUnderscore(key) == key # <<>> /\ key[1] = "_"

\* fieldnames = [key for key in packages[0].keys() if not key.startswith("_")]
FieldnamesUnfiltered(pkgs) == KeysOf(pkgs[1])
Fieldnames(pkgs) ==
    SelectSeq(KeysOf(pkgs[1]), LAMBDA key : ~StartsWithUnderscore(key))

\* package.get(key): the value, or None
Get(package, key) ==
    IF \E i \in 1..Len(package) : package[i][1] = key
    THEN [is_none |-> FALSE,
          value |-> package[CHOOSE i \in 1..Len(package) : package[i][1] = key][2]]
    ELSE [is_none |-> TRUE, value |-> Leaf(0)]

RECURSIVE IntStr(_)
\* str(n) for n >= 0
IntStr(n) ==
    LET digit == CHOOSE c \in Digits : DigitValue(c) = n % 10 IN
    IF n < 10 THEN <<digit>> ELSE IntStr(n \div 10) \o <<digit>>

\* The text csv.writer puts in a cell: "" for None, str(value) otherwise.
CsvCell(x) == IF x.is_none THEN <<>> ELSE IntStr(x.value.v)

\* {key: package.get(key) for key in fieldnames} as DictWriter writes it
CsvRow(package, fieldnames) ==
    [c \in 1..Len(fieldnames) |-> CsvCell(Get(package, fieldnames[c]))]

NoCsv == [written |-> FALSE, header |-> <<>>, rows |-> <<>>]

write_to_csv(pkgs) ==
    IF CsvWritten(pkgs)
    THEN [written |-> TRUE,
          header |-> Fieldnames(pkgs),
          rows |-> [r \in 1..Len(pkgs) |-> CsvRow(pkgs[r], Fieldnames(pkgs))]]
    ELSE NoCsv

InitCsv ==
    /\ variant = "inactive"
    /\ load_history = FALSE
    /\ remoteTotal = 0
    /\ pc = "call"
    /\ access_token = "token"
    /\ licenses = LicenseList(1)
    /\ selection = [numeric |-> TRUE, n |-> 1]
    /\ current_license = 1
    /\ PipelineIdle
    /\ fn_in \in CsvInputs
    /\ fn_out = NoCsv

WriteToCsv ==
    /\ pc = "call"
    /\ pc' = "returned"
    /\ fn_out' = write_to_csv(fn_in)
    /\ UNCHANGED <<variant, load_history, remoteTotal, probe, max_pages, futures,
                   liveExecutors, packages, batch_i, pagesSubmitted,
                   detailSubmitted, pageOutcome, detailOutcome, errorLog, output>>
    /\ UNCHANGED <<authVars, requestLog, fn_in>>

SpecCsv == InitCsv /\ [][WriteToCsv]_vars

\* Position of key in the record, 0 when the record lacks it.
KeyPos(d, key) ==
    IF \E i \in 1..Len(d) : d[i][1] = key
    THEN CHOOSE i \in 1..Len(d) : d[i][1] = key ELSE 0

\* C20: the header of the inactive CSV is the keys of the first flattened
\* record that do not start with "_", in that record's order; every row has
\* exactly those columns; a "_" key is never a column; a header key missing
\* from a later record gives an empty cell; a key that only later records
\* have is not a column.
C20_HeaderFromFirstRecord ==
    (pc = "returned" /\ fn_in # <<>>) =>
        LET first == fn_in[1]
            header == fn_out.header
        IN  /\ fn_out.written
            /\ \A i \in 1..Len(first) :
                  (~StartsWithUnderscore(first[i][1]))
                      <=> \E c \in 1..Len(header) : header[c] = first[i][1]
            /\ \A c \in 1..Len(header) :
                  /\ KeyPos(first, header[c]) # 0
                  /\ ~StartsWithUnderscore(header[c])
                  /\ \A e \in 1..Len(header) :
                        c < e => KeyPos(first, header[c]) < KeyPos(first, header[e])
            /\ Len(fn_out.rows) = Len(fn_in)
            /\ \A r \in 1..Len(fn_in) :
                  /\ Len(fn_out.rows[r]) = Len(header)
                  /\ \A c \in 1..Len(header) :
                        LET at == KeyPos(fn_in[r], header[c]) IN
                        fn_out.rows[r][c] =
                            IF at = 0 THEN <<>> ELSE IntStr(fn_in[r][at][2].v)

\* C20 witness: the first record has a "_" key and two others; the second
\* record lacks one of them and has a key of its own order.
C20_Witness ==
    /\ pc = "returned"
    /\ fn_in = <<<<<<<<"_", "h">>, Leaf(1)>>, <<<<"a", ".", "b">>, Leaf(12)>>,
                   <<<<"i", "d">>, Leaf(1)>>>>,
                 <<<<<<"i", "d">>, Leaf(12)>>, <<<<"_", "h">>, Leaf(1)>>>>>>
    /\ fn_out.header = <<<<"a", ".", "b">>, <<"i", "d">>>>
    /\ fn_out.rows = <<<<<<"1", "2">>, <<"1">>>>, <<<<>>, <<"1", "2">>>>>>

\* ---- the CSV file as text, written and read back --------------------------
\* Characters csv.writer (QUOTE_MINIMAL, lineterminator "\r\n") quotes for.
CsvSpecial == {",", "\"", "\r", "\n"}

RECURSIVE DoubledQuotes(_)
\* every quote character of the cell doubled
DoubledQuotes(cell) ==
    IF cell = <<>> THEN <<>>
    ELSE (IF Head(cell) = "\"" THEN <<"\"", "\"">> ELSE <<Head(cell)>>)
         \o DoubledQuotes(Tail(cell))

\* One field as csv.writer writes it; a row whose only field is empty is
\* written as "" so that the line is not blank.
CsvField(cell, alone) ==
    IF (\E i \in 1..Len(cell) : cell[i] \in CsvSpecial) \/ (alone /\ cell = <<>>)
    THEN <<"\"">> \o DoubledQuotes(cell) \o <<"\"">>
    ELSE cell

RECURSIVE CsvFields(_, _)
CsvFields(cells, alone) ==
    IF cells = <<>> THEN <<>>
    ELSE CsvField(Head(cells), alone)
         \o (IF Len(cells) > 1 THEN <<",">> ELSE <<>>)
         \o CsvFields(Tail(cells), alone)

\* writer.writerow(cells)
CsvLine(cells) == CsvFields(cells, Len(cells) = 1) \o <<"\r", "\n">>

RECURSIVE CsvLines(_)
CsvLines(rows) ==
    IF rows = <<>> THEN <<>> ELSE CsvLine(Head(rows)) \o CsvLines(Tail(rows))

\* writer.writeheader(); writer.writerows(packages)
CsvText(file) == CsvLine(file.header) \o CsvLines(file.rows)

\* csv.reader: the state of the parser between two characters.
ReaderStart == [state |-> "START_RECORD", field |-> <<>>, row |-> <<>>, rows |-> <<>>]

\* The field under construction is saved to the row.
SaveField(st) == [st EXCEPT !.row = Append(st.row, st.field), !.field = <<>>]
\* The row under construction is yielded.
EndRecord(st) ==
    [st EXCEPT !.rows = Append(st.rows, st.row), !.row = <<>>, !.state = "EAT_CRNL"]

\* One character processed by csv.reader.
ReaderStep(st, c) ==
    LET state == IF st.state \in {"START_RECORD", "EAT_CRNL"} /\ c \notin {"\r", "\n"}
                 THEN "START_FIELD" ELSE st.state
    IN  CASE state = "START_RECORD" -> EndRecord(st)
          [] state = "EAT_CRNL" -> [st EXCEPT !.state = "START_RECORD"]
          [] state = "START_FIELD" ->
                IF c = "\"" THEN [st EXCEPT !.state = "IN_QUOTED_FIELD"]
                ELSE IF c = "," THEN [SaveField(st) EXCEPT !.state = "START_FIELD"]
                ELSE IF c \in {"\r", "\n"} THEN EndRecord(SaveField(st))
                ELSE [st EXCEPT !.field = Append(@, c), !.state = "IN_FIELD"]
          [] state = "IN_FIELD" ->
                IF c = "," THEN [SaveField(st) EXCEPT !.state = "START_FIELD"]
                ELSE IF c \in {"\r", "\n"} THEN EndRecord(SaveField(st))
                ELSE [st EXCEPT !.field = Append(@, c)]
          [] state = "IN_QUOTED_FIELD" ->
                IF c = "\"" THEN [st EXCEPT !.state = "QUOTE_IN_QUOTED_FIELD"]
                ELSE [st EXCEPT !.field = Append(@, c)]
          [] OTHER ->
                IF c = "\"" THEN [st EXCEPT !.field = Append(@, c),
                                            !.state = "IN_QUOTED_FIELD"]
                ELSE IF c = "," THEN [SaveField(st) EXCEPT !.state = "START_FIELD"]
                ELSE IF c \in {"\r", "\n"} THEN EndRecord(SaveField(st))
                ELSE [st EXCEPT !.field = Append(@, c), !.state = "IN_FIELD"]

RECURSIVE ReaderRun(_, _)
ReaderRun(st, text) ==
    IF text = <<>> THEN st ELSE ReaderRun(ReaderStep(st, Head(text)), Tail(text))

\* list(csv.reader(file)): a blank line yields the empty row.
CsvReader(text) == ReaderRun(ReaderStart, text).rows

\* csv.DictReader: the first row is fieldnames, blank rows are skipped, a
\* short row is completed with None.
DictReader(text) ==
    LET all == CsvReader(text)
        fieldnames == IF all = <<>> THEN <<>> ELSE Head(all)
        data == SelectSeq(IF all = <<>> THEN <<>> ELSE Tail(all), LAMBDA r : r # <<>>)
    IN  [fieldnames |-> fieldnames,
         records |-> [r \in 1..Len(data) |->
                        [c \in 1..Len(fieldnames) |->
                            IF c <= Len(data[r])
                            THEN [is_none |-> FALSE, text |-> data[r][c]]
                            ELSE [is_none |-> TRUE, text |-> <<>>]]]]

\* ---- generate_report's flatten + write_to_csv, and the file read back -----
\* Nested records: up to two items, a value being an integer or a dict of one
\* item; keys may start with "_", hold the separator, a comma or a quote, or
\* be empty.
RoundTripKeys == {<<"a">>, <<"a", ".", "b">>, <<"_", "h">>, <<"x", ",", "y">>, <<>>}
RoundTripInnerKeys == {<<"b">>, <<"q", "\"">>}
RoundTripValues ==
    {Leaf(1), Leaf(12)} \cup {Mapping(<<<<k, Leaf(2)>>>>) : k \in RoundTripInnerKeys}
RoundTripSmallRecords ==
    {<<>>} \cup {<<<<k, x>>>> : k \in RoundTripKeys, x \in RoundTripValues}
RoundTripRecords ==
    RoundTripSmallRecords \cup
    {d \in {<<<<k, x>>, <<l, y>>>> : k \in RoundTripKeys, l \in RoundTripKeys,
                                     x \in RoundTripValues, y \in RoundTripValues} :
        DistinctKeys(d)}
\* The aggregated list: one record, or a record followed by a small one.
RoundTripInputs ==
    {<<a>> : a \in RoundTripRecords} \cup
    {<<a, b>> : a \in RoundTripRecords, b \in RoundTripSmallRecords}

\* packages = [flatten_dict(d=x) for x in packages]
FlattenAll(pkgs) == [r \in 1..Len(pkgs) |-> flatten_dict(pkgs[r], <<>>)]

InitRoundTrip ==
    /\ variant = "inactive"
    /\ load_history = FALSE
    /\ remoteTotal = 0
    /\ pc = "call"
    /\ access_token = "token"
    /\ licenses = LicenseList(1)
    /\ selection = [numeric |-> TRUE, n |-> 1]
    /\ current_license = 1
    /\ PipelineIdle
    /\ fn_in \in RoundTripInputs
    /\ fn_out = <<>>

\* The last two lines of generate_report: the file text.
ExportCsv ==
    /\ pc = "call"
    /\ pc' = "written"
    /\ fn_out' = CsvText(write_to_csv(FlattenAll(fn_in)))
    /\ UNCHANGED <<variant, load_history, remoteTotal, probe, max_pages, futures,
                   liveExecutors, packages, batch_i, pagesSubmitted,
                   detailSubmitted, pageOutcome, detailOutcome, errorLog, output>>
    /\ UNCHANGED <<authVars, requestLog, fn_in>>

\* The file read back with csv.DictReader.
ReadCsvBack ==
    /\ pc = "written"
    /\ pc' = "read_back"
    /\ fn_out' = DictReader(fn_out)
    /\ UNCHANGED <<variant, load_history, remoteTotal, probe, max_pages, futures,
                   liveExecutors, packages, batch_i, pagesSubmitted,
                   detailSubmitted, pageOutcome, detailOutcome, errorLog, output>>
    /\ UNCHANGED <<authVars, requestLog, fn_in>>

NextRoundTrip == ExportCsv \/ ReadCsvBack

SpecRoundTrip == InitRoundTrip /\ [][NextRoundTrip]_vars

\* The non-nested values the record holds at the key path that joins to key.
ValuesAtPath(d, key) ==
    {l[2] : l \in {m \in LeafPaths(d, <<>>) : JoinPath(m[1]) = key}}

\* C21 (as claimed): for every record written and every key of the header,
\* the cell read back under that key in the record's row is the text of the
\* record's original non-nested value at that key path (an empty cell when
\* the record has no value there), and every header key is a key path of
\* the first record.
C21_CsvRoundTrip ==
    (pc = "read_back" /\ fn_out.fieldnames # <<>>) =>
        /\ Len(fn_out.records) = Len(fn_in)
        /\ \A c \in 1..Len(fn_out.fieldnames) :
              /\ ValuesAtPath(fn_in[1], fn_out.fieldnames[c]) # {}
              /\ \A r \in 1..Len(fn_out.records) :
                    LET cell == fn_out.records[r][c]
                        orig == ValuesAtPath(fn_in[r], fn_out.fieldnames[c])
                    IN  /\ ~cell.is_none
                        /\ orig = {} => cell.text = <<>>
                        /\ \A x \in orig : cell.text = IntStr(x.v)

\* ---- write_to_csv of the lab-results export --------------------------------
k_label == <<"l", "a", "b", "e", "l">>
k_item_name == <<"i", "t", "e", "m", ".", "n", "a", "m", "e">>
k_quantity == <<"q", "u", "a", "n", "t", "i", "t", "y">>
k_unit == <<"u", "n", "i", "t", "O", "f", "M", "e", "a", "s", "u", "r", "e", "A", "b", "b", "r", "e", "v", "i", "a", "t", "i", "o", "n">>
k_id == <<"i", "d">>
k_b == <<"b">>
k_a == <<"a">>
k_labresults == <<"_", "l", "a", "b", "r", "e", "s", "u", "l", "t", "s">>
s_labresult == <<"l", "a", "b", "r", "e", "s", "u", "l", "t", ".">>

\* The value of "_labresults": the list of lab result dicts.
ListValue(xs) == [is_dict |-> FALSE, is_list |-> TRUE, v |-> 0, items |-> xs]

\* {k: v for k, v in pkg.items() if k != "_labresults"}
PackageFields(pkg) == SelectSeq(pkg, LAMBDA it : it[1] # k_labresults)

\* Flattened package fields explored, without the "_labresults" key.
LabPackageFields ==
    {<<>>,
     <<<<k_id, Leaf(1)>>>>,
     <<<<k_quantity, Leaf(2)>>, <<k_label, Leaf(1)>>>>,
     <<<<k_b, Leaf(1)>>, <<k_id, Leaf(2)>>, <<k_item_name, Leaf(1)>>>>}
\* Lab results explored.
LabResultDicts ==
    {<<<<k_id, Leaf(1)>>>>, <<<<k_a, Leaf(2)>>>>,
     <<<<k_id, Leaf(2)>>, <<k_a, Leaf(1)>>>>}
LabResultLists ==
    {<<>>} \cup {<<x>> : x \in LabResultDicts} \cup
    {<<x, y>> : x \in {<<<<k_id, Leaf(1)>>>>}, y \in LabResultDicts}
\* A package after the joiner and flatten_dict: with the "_labresults" list,
\* or without the key when its detail fetch failed or returned nothing.
LabPackages ==
    LabPackageFields \cup
    {Append(f, <<k_labresults, ListValue(xs)>>) :
        f \in LabPackageFields, xs \in LabResultLists}
\* The list handed to the writer: up to two packages, the second with at
\* most one field of its own.
LabCsvInputs ==
    {<<>>} \cup {<<x>> : x \in LabPackages} \cup
    {<<x, y>> : x \in LabPackages,
                y \in {z \in LabPackages : Len(PackageFields(z)) <= 1}}

HasKey(d, key) == \E i \in 1..Len(d) : d[i][1] = key
\* d[key], for a key the dict has
Item(d, key) == d[CHOOSE i \in 1..Len(d) : d[i][1] = key][2]

\* {"labresult." + k: v for k, v in lab_result.items()}
PrefixedLabResult(lab_result) ==
    [i \in 1..Len(lab_result) |->
        <<s_labresult \o lab_result[i][1], lab_result[i][2]>>]

\* {**{"labresult." + k: v ...}, **{k: v ... if k != "_labresults"}}
LabRow(pkg, lab_result) ==
    DictOf(PrefixedLabResult(lab_result) \o PackageFields(pkg))

RECURSIVE LabResultRows(_)
\* The list lab_results after the for loop over packages, every package
\* having the "_labresults" key.
LabResultRows(pkgs) ==
    IF pkgs = <<>> THEN <<>>
    ELSE LET pkg == Head(pkgs)
             labs == Item(pkg, k_labresults).items
         IN  [j \in 1..Len(labs) |-> LabRow(pkg, labs[j])]
             \o LabResultRows(Tail(pkgs))

\* {key for lab_result in lab_results for key in lab_result}
FieldnameSet(rows) == UNION {{rows[r][i][1] : i \in 1..Len(rows[r])} : r \in 1..Len(rows)}

RECURSIVE Orders(_)
\* The orders in which list(a set of strings) may enumerate the set.
Orders(S) ==
    IF S = {} THEN {<<>>}
    ELSE UNION {{<<x>> \o o : o \in Orders(S \ {x})} : x \in S}

priority_order == <<k_label, k_item_name, k_quantity, k_unit>>

\* The sort key of a column: its index in priority_order, else
\* len(priority_order) for a "labresult." column, else len(priority_order) + 1.
ColumnRank(x) ==
    IF \E i \in 1..Len(priority_order) : priority_order[i] = x
    THEN (CHOOSE i \in 1..Len(priority_order) : priority_order[i] = x) - 1
    ELSE IF StartsWithAt(x, 1, s_labresult) THEN Len(priority_order)
    ELSE Len(priority_order) + 1

RECURSIVE SortedByRank(_, _)
\* sorted(fieldnames, key=...): stable, so columns of equal key keep the
\* order of fieldnames.
SortedByRank(fieldnames, rank) ==
    IF rank > Len(priority_order) + 1 THEN <<>>
    ELSE SelectSeq(fieldnames, LAMBDA x : ColumnRank(x) = rank)
         \o SortedByRank(fieldnames, rank + 1)

\* pkg["_labresults"] raises KeyError
LabCsvKeyError(pkgs) == \E k \in 1..Len(pkgs) : ~HasKey(pkgs[k], k_labresults)

NoLabCsv == [written |-> FALSE, raised |-> "none", header |-> <<>>, rows |-> <<>>]

\* write_to_csv(packages) when list(set) enumerates the columns in `order`.
lab_write_to_csv(pkgs, order) ==
    IF ~CsvWritten(pkgs) THEN NoLabCsv
    ELSE IF LabCsvKeyError(pkgs) THEN [NoLabCsv EXCEPT !.raised = "KeyError"]
    ELSE [written |-> TRUE, raised |-> "none",
          header |-> SortedByRank(order, 0),
          rows |-> LabResultRows(pkgs)]

InitLabCsv ==
    /\ variant = "labresults"
    /\ load_history = TRUE
    /\ remoteTotal = 0
    /\ pc = "call"
    /\ access_token = "token"
    /\ licenses = LicenseList(1)
    /\ selection = [numeric |-> TRUE, n |-> 1]
    /\ current_license = 1
    /\ PipelineIdle
    /\ fn_in \in LabCsvInputs
    /\ fn_out = NoLabCsv

WriteLabCsv ==
    /\ pc = "call"
    /\ pc' = "returned"
    /\ \E order \in Orders(IF CsvWritten(fn_in) /\ ~LabCsvKeyError(fn_in)
                           THEN FieldnameSet(LabResultRows(fn_in)) ELSE {}) :
          fn_out' = lab_write_to_csv(fn_in, order)
    /\ UNCHANGED <<variant, load_history, remoteTotal, probe, max_pages, futures,
                   liveExecutors, packages, batch_i, pagesSubmitted,
                   detailSubmitted, pageOutcome, detailOutcome, errorLog, output>>
    /\ UNCHANGED <<authVars, requestLog, fn_in>>

SpecLabCsv == InitLabCsv /\ [][WriteLabCsv]_vars

RECURSIVE LabPairs(_, _)
\* The (package, lab result) pairs of the list, in order: <<k, j>> for the
\* j-th lab result of the k-th package.
LabPairs(pkgs, k) ==
    IF k > Len(pkgs) THEN <<>>
    ELSE (IF HasKey(pkgs[k], k_labresults)
          THEN [j \in 1..Len(Item(pkgs[k], k_labresults).items) |-> <<k, j>>]
          ELSE <<>>)
         \o LabPairs(pkgs, k + 1)

\* The rows of the file; none when no file was written.
EmittedRows == IF fn_out.written THEN fn_out.rows ELSE <<>>

\* C22 (as claimed): the lab-results writer emits exactly one row per
\* (package, lab result) pair, as many rows as the lengths of the packages'
\* _labresults add up to; each row holds every flattened package field
\* except _labresults, every field of its lab result under the prefix
\* "labresult.", and nothing else.
C22_OneRowPerPackageLabResult ==
    pc = "returned" =>
        LET pairs == LabPairs(fn_in, 1) IN
        /\ Len(EmittedRows) = Len(pairs)
        /\ \A n \in 1..Len(pairs) :
              LET pkg == fn_in[pairs[n][1]]
                  lab == Item(pkg, k_labresults).items[pairs[n][2]]
                  row == EmittedRows[n]
              IN  /\ \A i \in 1..Len(pkg) :
                        pkg[i][1] # k_labresults => \E c \in 1..Len(row) : row[c] = pkg[i]
                  /\ \A i \in 1..Len(lab) :
                        \E c \in 1..Len(row) :
                            row[c] = <<s_labresult \o lab[i][1], lab[i][2]>>
                  /\ Len(row) = Len(PackageFields(pkg)) + Len(lab)
                  /\ ~HasKey(row, k_labresults)
                  /\ \A c \in 1..Len(row) :
                        \E h \in 1..Len(fn_out.header) : fn_out.header[h] = row[c][1]

\* The characters of the explored keys in code-point order.
CodePointOrder ==
    <<".">> \o <<"A", "B", "C", "D", "E", "F", "G", "H", "I", "J", "K", "L", "M", "N", "O", "P", "Q", "R", "S", "T", "U", "V", "W", "X", "Y", "Z">>
    \o <<"_">> \o <<"a", "b", "c", "d", "e", "f", "g", "h", "i", "j", "k", "l", "m", "n", "o", "p", "q", "r", "s", "t", "u", "v", "w", "x", "y", "z">>
CodePoint(c) == CHOOSE i \in 1..Len(CodePointOrder) : CodePointOrder[i] = c

RECURSIVE StrLess(_, _)
\* s < t for strings
StrLess(s1, s2) ==
    IF s2 = <<>> THEN FALSE
    ELSE IF s1 = <<>> THEN TRUE
    ELSE IF Head(s1) = Head(s2) THEN StrLess(Tail(s1), Tail(s2))
    ELSE CodePoint(Head(s1)) < CodePoint(Head(s2))

\* C23 (as claimed): in the lab-results CSV the columns label, item.name,
\* quantity, unitOfMeasureAbbreviation come first in that order (when
\* present) and all remaining columns follow in alphabetical order, so the
\* column order is determined by the records.
C23_PriorityThenAlphabetical ==
    (pc = "returned" /\ fn_out.written) =>
        LET header == fn_out.header IN
        \A c, e \in 1..Len(header) :
            c < e =>
                /\ ColumnRank(header[c]) < Len(priority_order)
                      \/ ColumnRank(header[e]) >= Len(priority_order)
                /\ (ColumnRank(header[c]) < Len(priority_order)
                        /\ ColumnRank(header[e]) < Len(priority_order))
                      => ColumnRank(header[c]) < ColumnRank(header[e])
                /\ (ColumnRank(header[c]) >= Len(priority_order)
                        /\ ColumnRank(header[e]) >= Len(priority_order))
                      => StrLess(header[c], header[e])

\* ---- the retry delay -----------------------------------------------------
\* The calls of make_request_with_retries of a run: the probe and the tasks.
RetryCalls == {probe} \cup {futures[k] : k \in DOMAIN futures}

\* C24 (as claimed): the retry_delay sleep is taken only between two
\* consecutive attempts: a finished call that performed k GETs slept exactly
\* k - 1 times, so no sleep follows the last failed GET before the raise.
C24_SleepOnlyBetweenAttempts ==
    \A r \in RetryCalls :
        r.st \in {"returned", "raised"} => r.sleeps = r.gets - 1

\* ---- termination of an export run ---------------------------------------
\* Every HTTP call returns or times out, the pool threads are scheduled and
\* the orchestrating thread is never blocked but on work that is pending:
\* whenever some step of the run is possible, a step is eventually taken.
InitTerminates ==
    /\ Init
    /\ remoteTotal <= RunMaxTotal

SpecTerminates == InitTerminates /\ [][Next]_vars /\ WF_vars(Next)

\* Every call so far stayed within its budget of MAX_RETRIES GETs, and a call
\* that returned did so at its first successful GET.
BoundedAttempts ==
    \A r \in RetryCalls :
        /\ r.gets <= MAX_RETRIES
        /\ r.retries <= MAX_RETRIES
        /\ r.st = "returned" => r.gets = r.retries + 1
        /\ r.st = "raised" => r.gets = MAX_RETRIES

\* The run is over: the writer was reached or main's except clause was,
\* every pool was shut down and no task is left.
RunEnded ==
    /\ pc \in {"done", "error"}
    /\ liveExecutors = 0
    /\ DOMAIN futures = {}

\* C25: when every HTTP call returns or times out, every export run
\* terminates: each make_request_with_retries call ends within MAX_RETRIES
\* GETs (returning at the first successful one, or raising), every pool
\* drains, and the run reaches the report writer or an abort and stays there.
C25_RunTerminates == [] BoundedAttempts /\ <>[] RunEnded

\* C25 witness: a run over a non-empty collection ended after the probe had
\* to retry and a page task exhausted its retries.
C25_Witness ==
    /\ RunEnded
    /\ pc = "done"
    /\ probe.retries > 0
    /\ \E p \in DOMAIN pageOutcome : pageOutcome[p] = "raised"
    /\ Len(packages) > 0

\* ---- a probe that exhausts its retries -----------------------------------
\* C26: the probe is one make_request_with_retries call like a page task's
\* and is not retried beyond it: it never issues more than MAX_RETRIES GETs,
\* and once it has raised (after exactly MAX_RETRIES failed GETs) the run is
\* aborted: no page task was or is submitted, no page or detail request is
\* issued, no executor is alive and no output file is written.
C26_ProbeFailureAborts ==
    /\ probe.gets <= MAX_RETRIES
    /\ probe.st = "raised" =>
          /\ probe.gets = MAX_RETRIES
          /\ probe.retries = MAX_RETRIES
          /\ pc = "error"
          /\ pagesSubmitted = <<>>
          /\ detailSubmitted = <<>>
          /\ DOMAIN futures = {}
          /\ liveExecutors = 0
          /\ \A r \in requestLog : r.kind = "probe"
          /\ packages = <<>>
          /\ ~output.written

\* C26 witness: the probe of a run over a non-empty collection has raised.
C26_Witness ==
    /\ probe.st = "raised"
    /\ remoteTotal > 0
    /\ access_token # ""
    /\ current_license # 0

\* ---- discontinue_items_v2: the names of the CSV file, then one POST each ---
\* Bounds of the inputs: rows of the CSV file and items of the collection.
MaxCsvRows == 3
MaxItems == 2

n_a == <<"a">>
n_b == <<"b">>
n_upper_a == <<"A">>
n_a_comma_b == <<"a", ",", "b">>

\* Rows of the CSV file: a blank line, one name, a name followed by a second
\* column, a name that needs quoting, an empty name.
CsvFileRows ==
    {<<>>, <<n_a>>, <<n_b, n_a>>, <<n_a_comma_b>>, <<n_upper_a>>, <<<<>>>>}
ItemNameValues == {n_a, n_b, n_a_comma_b}

SeqsUpTo(S, n) == UNION {[1..m -> S] : m \in 0..n}

\* What load_items returned: dicts with the API's id and the name; two items
\* may carry the same name.
ItemsOf(names) == [k \in 1..Len(names) |-> [id |-> 10 + k, name |-> names[k]]]

\* fn_in: the file at csv_path (exists, text, and the rows it was saved
\* from) and the loaded collection.
DiscontinueInputs ==
    {[exists |-> TRUE, rows |-> rows, text |-> CsvLines(rows),
      items |-> ItemsOf(names)] :
        rows \in SeqsUpTo(CsvFileRows, MaxCsvRows),
        names \in SeqsUpTo(ItemNameValues, MaxItems)}
    \cup {[exists |-> FALSE, rows |-> <<>>, text |-> <<>>, items |-> <<>>]}

\* Outcomes of requests.post(...) followed by raise_for_status().
PostOutcomes == {"ok", "HTTPError", "RequestException"}

\* fn_out: item_names, the number of names the loop is done with, the POSTs
\* issued so far, the ids the server has discontinued, the names logged as
\* unmatched.
NoProgress ==
    [item_names |-> <<>>, i |-> 0, posts |-> <<>>, discontinued |-> {},
     unmatched |-> {}]

InitDiscontinue ==
    /\ variant = "items"
    /\ load_history = FALSE
    /\ remoteTotal = 0
    /\ pc = "load_csv"
    /\ access_token = "token"
    /\ licenses = LicenseList(1)
    /\ selection = [numeric |-> TRUE, n |-> 1]
    /\ current_license = 1
    /\ PipelineIdle
    /\ fn_in \in DiscontinueInputs
    /\ fn_out = NoProgress

\* load_item_names_from_csv: row[0] of every row that is not empty.
FirstColumn(rows) ==
    LET kept == SelectSeq(rows, LAMBDA r : r # <<>>)
    IN  [r \in 1..Len(kept) |-> kept[r][1]]

\* main, line 289: the names are loaded before the session is opened; a
\* missing file is logged and re-raised, outside main's try.
LoadItemNamesFromCsv ==
    /\ pc = "load_csv"
    /\ IF fn_in.exists
       THEN /\ fn_out' = [fn_out EXCEPT !.item_names = FirstColumn(CsvReader(fn_in.text))]
            /\ pc' = "loop"
       ELSE /\ pc' = "crashed"
            /\ UNCHANGED fn_out
    /\ UNCHANGED <<variant, load_history, remoteTotal, probe, max_pages, futures,
                   liveExecutors, packages, batch_i, pagesSubmitted,
                   detailSubmitted, pageOutcome, detailOutcome, errorLog, output>>
    /\ UNCHANGED <<authVars, requestLog, fn_in>>

\* next((item for item in items if item['name'] == item_name), None):
\* the position of the first item of that name, 0 for None.
FirstItemAny(items, item_name) == IF items = <<>> THEN 0 ELSE 1
FirstItemNamed(items, item_name) ==
    IF \E k \in 1..Len(items) : items[k].name = item_name
    THEN CHOOSE k \in 1..Len(items) :
            /\ items[k].name = item_name
            /\ \A j \in 1..(k - 1) : items[j].name # item_name
    ELSE 0

\* Where main goes after a POST: discontinue_item has no retry and no
\* handler, so an exception leaves the for loop for main's except clauses.
PcAfterPostContinue(outcome) == "loop"
PcAfterPost(outcome) == IF outcome = "ok" THEN "loop" ELSE "request_error"

\* One iteration of the for loop over item_names.
DiscontinueNext ==
    /\ pc = "loop"
    /\ fn_out.i < Len(fn_out.item_names)
    /\ LET at == fn_out.i + 1
           item_name == fn_out.item_names[at]
           k == FirstItemNamed(fn_in.items, item_name)
       IN  IF k = 0
           THEN /\ fn_out' = [fn_out EXCEPT !.i = at,
                                !.unmatched = @ \cup {item_name}]
                /\ pc' = "loop"
           ELSE \E outcome \in PostOutcomes :
                /\ fn_out' = [fn_out EXCEPT
                        !.i = IF outcome = "ok" THEN at ELSE @,
                        !.posts = Append(@, [id |-> fn_in.items[k].id, at |-> at,
                                             item_name |-> item_name,
                                             licenseNumber |-> LicenseNumberArg,
                                             outcome |-> outcome]),
                        !.discontinued = IF outcome = "ok"
                                         THEN @ \cup {fn_in.items[k].id} ELSE @]
                /\ pc' = PcAfterPost(outcome)
    /\ UNCHANGED <<variant, load_history, remoteTotal, probe, max_pages, futures,
                   liveExecutors, packages, batch_i, pagesSubmitted,
                   detailSubmitted, pageOutcome, detailOutcome, errorLog, output>>
    /\ UNCHANGED <<authVars, requestLog, fn_in>>

\* The for loop is exhausted: main returns.
DiscontinueDone ==
    /\ pc = "loop"
    /\ fn_out.i = Len(fn_out.item_names)
    /\ pc' = "done"
    /\ UNCHANGED fn_out
    /\ UNCHANGED <<variant, load_history, remoteTotal, probe, max_pages, futures,
                   liveExecutors, packages, batch_i, pagesSubmitted,
                   detailSubmitted, pageOutcome, detailOutcome, errorLog, output>>
    /\ UNCHANGED <<authVars, requestLog, fn_in>>

NextDiscontinue == LoadItemNamesFromCsv \/ DiscontinueNext \/ DiscontinueDone

SpecDiscontinue == InitDiscontinue /\ [][NextDiscontinue]_vars

\* The names of the first column of the file, in file order.
NamesInFile == FirstColumn(fn_in.rows)
PostedIds == {fn_out.posts[j].id : j \in 1..Len(fn_out.posts)}
ItemNamed(item_name) ==
    \E k \in 1..Len(fn_in.items) : fn_in.items[k].name = item_name

\* C27: a discontinue POST is issued only for an item of the loaded
\* collection whose name exactly equals a name of the first CSV column (the
\* name the loop is at); an item no name of the file names is never
\* discontinued; a name that matches no item issues no POST and the loop
\* goes on with the next name.
C27_OnlyNamedItemsDiscontinued ==
    pc \in {"loop", "done", "request_error"} =>
        /\ fn_out.item_names = NamesInFile
        /\ \A j \in 1..Len(fn_out.posts) :
              LET post == fn_out.posts[j] IN
              /\ post.at \in 1..Len(NamesInFile)
              /\ post.item_name = NamesInFile[post.at]
              /\ \E k \in 1..Len(fn_in.items) :
                    /\ fn_in.items[k].id = post.id
                    /\ fn_in.items[k].name = post.item_name
        /\ \A k \in 1..Len(fn_in.items) :
              (\A at \in 1..Len(NamesInFile) : NamesInFile[at] # fn_in.items[k].name)
                  => fn_in.items[k].id \notin PostedIds \cup fn_out.discontinued
        /\ \A at \in 1..Len(NamesInFile) :
              ~ItemNamed(NamesInFile[at])
                  => /\ \A j \in 1..Len(fn_out.posts) : fn_out.posts[j].at # at
                     /\ at <= fn_out.i => NamesInFile[at] \in fn_out.unmatched
        /\ pc = "done" =>
              /\ fn_out.i = Len(NamesInFile)
              /\ \A at \in 1..Len(NamesInFile) :
                    ItemNamed(NamesInFile[at])
                        => \E j \in 1..Len(fn_out.posts) : fn_out.posts[j].at = at

\* C27 witness: the first name of the file matched no item, the loop went on
\* and discontinued the item of a later, quoted name, and an item no name of
\* the file names was left alone.
C27_Witness ==
    /\ pc = "done"
    /\ Len(NamesInFile) >= 2
    /\ ~ItemNamed(NamesInFile[1])
    /\ \E j \in 1..Len(fn_out.posts) : fn_out.posts[j].item_name = n_a_comma_b
    /\ \E k \in 1..Len(fn_in.items) : fn_in.items[k].id \notin fn_out.discontinued

\* C28: the POSTs are issued one at a time in the order of the file, each
\* name at most once (no retry); a POST that fails with an HTTP or request
\* error is the last one, the run ends in main's except clause with the
\* later names unprocessed, and the items discontinued before stay so.
C28_SequentialNoRetryStopAtFailure ==
    pc \in {"loop", "done", "request_error"} =>
        LET posts == fn_out.posts IN
        /\ \A j, l \in 1..Len(posts) : j < l => posts[j].at < posts[l].at
        /\ \A j \in 1..(Len(posts) - 1) : posts[j].outcome = "ok"
        /\ \A j \in 1..Len(posts) : posts[j].at <= fn_out.i + 1
        /\ (pc = "request_error") <=>
              (posts # <<>> /\ posts[Len(posts)].outcome # "ok")
        /\ pc = "request_error" => posts[Len(posts)].at = fn_out.i + 1
        /\ fn_out.discontinued =
              {posts[j].id : j \in {l \in 1..Len(posts) : posts[l].outcome = "ok"}}

\* C28 witness: the second POST failed after the first one succeeded, with a
\* later name of the file, naming another item, left unprocessed.
C28_Witness ==
    /\ pc = "request_error"
    /\ Len(fn_out.posts) = 2
    /\ fn_out.discontinued # {}
    /\ fn_out.i + 1 < Len(NamesInFile)
    /\ ItemNamed(NamesInFile[Len(NamesInFile)])
    /\ FirstItemNamed(fn_in.items, NamesInFile[Len(NamesInFile)])
          # FirstItemNamed(fn_in.items, fn_out.posts[2].item_name)

\* ---- unfinalize_and_void_sales_receipts: two POSTs per row of the file ----
MaxReceiptRows == 3

r_7 == <<"7">>
r_12 == <<"1", "2">>
r_007 == <<"0", "0", "7">>
r_sp_7 == <<" ", "7">>
r_x == <<"x">>

\* Rows of sales_receipts.csv: a blank line, an id, an id with a second
\* column, an id with leading zeros, an id after a space, a word, an empty
\* first field.
ReceiptFileRows ==
    {<<>>, <<r_7>>, <<r_12, r_x>>, <<r_007>>, <<r_sp_7>>, <<r_x>>, <<<<>>>>}

\* fn_in: the file next to the script (exists, text, the rows it was saved
\* from).
ReceiptInputs ==
    {[exists |-> TRUE, rows |-> rows, text |-> CsvLines(rows)] :
        rows \in SeqsUpTo(ReceiptFileRows, MaxReceiptRows)}
    \cup {[exists |-> FALSE, rows |-> <<>>, text |-> <<>>]}

\* fn_out: the rows csv_reader yields, the number of rows the loop is done
\* with, the POSTs issued so far, and whether "All receipts processed
\* successfully." was logged.
NoReceiptProgress == [rows |-> <<>>, i |-> 0, posts |-> <<>>, all_processed |-> FALSE]

InitReceipts ==
    /\ variant = "items"
    /\ load_history = FALSE
    /\ remoteTotal = 0
    /\ pc = "open_csv"
    /\ access_token = "token"
    /\ licenses = LicenseList(1)
    /\ selection = [numeric |-> TRUE, n |-> 1]
    /\ current_license = 1
    /\ PipelineIdle
    /\ fn_in \in ReceiptInputs
    /\ fn_out = NoReceiptProgress

RECURSIVE LStrip(_)
LStrip(t) == IF t # <<>> /\ Head(t) = " " THEN LStrip(Tail(t)) ELSE t
RECURSIVE RStrip(_)
RStrip(t) ==
    IF t # <<>> /\ t[Len(t)] = " " THEN RStrip(SubSeq(t, 1, Len(t) - 1)) ELSE t

\* int(receipt_id) of a string of digits, letters and spaces: surrounding
\* whitespace is dropped, then every character must be a digit.
IntIsValueError(t) ==
    LET u == RStrip(LStrip(t))
    IN  u = <<>> \/ \E c \in 1..Len(u) : u[c] \notin Digits
IntValue(t) == DigitsValue(RStrip(LStrip(t)))

\* open(csv_path): FileNotFoundError is logged and the function returns.
OpenReceiptsCsv ==
    /\ pc = "open_csv"
    /\ IF fn_in.exists
       THEN /\ fn_out' = [fn_out EXCEPT !.rows = CsvReader(fn_in.text)]
            /\ pc' = "next_row"
       ELSE /\ pc' = "error"
            /\ UNCHANGED fn_out
    /\ UNCHANGED <<variant, load_history, remoteTotal, probe, max_pages, futures,
                   liveExecutors, packages, batch_i, pagesSubmitted,
                   detailSubmitted, pageOutcome, detailOutcome, errorLog, output>>
    /\ UNCHANGED <<authVars, requestLog, fn_in>>

\* Where process_sales_receipts goes after a POST: raise_for_status() or the
\* request raises into "except Exception", which ends the loop.
PcAfterReceiptPostContinue(outcome, then) == then
PcAfterReceiptPost(outcome, then) == IF outcome = "ok" THEN then ELSE "error"

\* The next row of csv_reader: an empty row is skipped; otherwise
\* unfinalize_receipt(receipt_id=row[0], ...) is called, whose int() raises
\* ValueError before any request when row[0] is no number.
UnfinalizeReceipt ==
    /\ pc = "next_row"
    /\ fn_out.i < Len(fn_out.rows)
    /\ LET at == fn_out.i + 1
           row == fn_out.rows[at]
       IN  IF row = <<>>
           THEN /\ fn_out' = [fn_out EXCEPT !.i = at]
                /\ pc' = "next_row"
           ELSE IF IntIsValueError(row[1])
           THEN /\ pc' = "error"
                /\ UNCHANGED fn_out
           ELSE \E outcome \in PostOutcomes :
                /\ fn_out' = [fn_out EXCEPT !.posts =
                        Append(@, [kind |-> "unfinalize", id |-> IntValue(row[1]),
                                   at |-> at, outcome |-> outcome])]
                /\ pc' = PcAfterReceiptPost(outcome, "void")
    /\ UNCHANGED <<variant, load_history, remoteTotal, probe, max_pages, futures,
                   liveExecutors, packages, batch_i, pagesSubmitted,
                   detailSubmitted, pageOutcome, detailOutcome, errorLog, output>>
    /\ UNCHANGED <<authVars, requestLog, fn_in>>

\* void_receipt(receipt_id=row[0], ...) of the row just unfinalized.
VoidReceipt ==
    /\ pc = "void"
    /\ LET at == fn_out.i + 1
           row == fn_out.rows[at]
       IN  \E outcome \in PostOutcomes :
                /\ fn_out' = [fn_out EXCEPT
                        !.i = IF outcome = "ok" THEN at ELSE @,
                        !.posts = Append(@, [kind |-> "void", id |-> IntValue(row[1]),
                                             at |-> at, outcome |-> outcome])]
                /\ pc' = PcAfterReceiptPost(outcome, "next_row")
    /\ UNCHANGED <<variant, load_history, remoteTotal, probe, max_pages, futures,
                   liveExecutors, packages, batch_i, pagesSubmitted,
                   detailSubmitted, pageOutcome, detailOutcome, errorLog, output>>
    /\ UNCHANGED <<authVars, requestLog, fn_in>>

\* csv_reader is exhausted: "All receipts processed successfully."
ReceiptsDone ==
    /\ pc = "next_row"
    /\ fn_out.i = Len(fn_out.rows)
    /\ pc' = "done"
    /\ fn_out' = [fn_out EXCEPT !.all_processed = TRUE]
    /\ UNCHANGED <<variant, load_history, remoteTotal, probe, max_pages, futures,
                   liveExecutors, packages, batch_i, pagesSubmitted,
                   detailSubmitted, pageOutcome, detailOutcome, errorLog, output>>
    /\ UNCHANGED <<authVars, requestLog, fn_in>>

NextReceipts == OpenReceiptsCsv \/ UnfinalizeReceipt \/ VoidReceipt \/ ReceiptsDone

SpecReceipts == InitReceipts /\ [][NextReceipts]_vars

\* The POSTs of unfinalize_receipt and void_receipt so far, and those of
\* them that raised.
ReceiptPosts == fn_out.posts
FailedPosts == {j \in 1..Len(ReceiptPosts) : ReceiptPosts[j].outcome # "ok"}

\* C29: receipts are processed in the order of the file; for every receipt
\* the void POST is issued only right after the unfinalize POST of the same
\* row and id has succeeded; a failed POST is the last POST of the run.
C29_VoidOnlyAfterUnfinalize ==
    pc \in {"next_row", "void", "done", "error"} =>
        /\ \A j \in 1..Len(ReceiptPosts) :
              LET post == ReceiptPosts[j] IN
              /\ post.at \in 1..Len(fn_in.rows)
              /\ fn_in.rows[post.at] # <<>>
              /\ ~IntIsValueError(fn_in.rows[post.at][1])
              /\ post.id = IntValue(fn_in.rows[post.at][1])
              /\ post.kind = "void" =>
                    /\ j > 1
                    /\ ReceiptPosts[j - 1].kind = "unfinalize"
                    /\ ReceiptPosts[j - 1].outcome = "ok"
                    /\ ReceiptPosts[j - 1].at = post.at
                    /\ ReceiptPosts[j - 1].id = post.id
              /\ (post.kind = "unfinalize" /\ j > 1) =>
                    /\ ReceiptPosts[j - 1].kind = "void"
                    /\ ReceiptPosts[j - 1].at < post.at
        /\ \A j \in FailedPosts : j = Len(ReceiptPosts)
        /\ FailedPosts # {} => pc = "error"
        /\ fn_out.all_processed => FailedPosts = {}

\* C29 witness: the first receipt was unfinalized and voided, the second
\* was unfinalized and its void POST failed, and a third receipt is left.
C29_Witness ==
    /\ pc = "error"
    /\ Len(ReceiptPosts) = 4
    /\ ReceiptPosts[4].kind = "void"
    /\ ReceiptPosts[4].outcome # "ok"
    /\ ReceiptPosts[4].at < Len(fn_in.rows)
    /\ ~IntIsValueError(fn_in.rows[Len(fn_in.rows)][1])

\* ---- who writes the shared results ----------------------------------------
\* A step of a pool thread: a worker picks a task up, or runs its
\* fetch_page / fetch_package_history call to the end.
WorkerStep == \E k \in DOMAIN futures : StartTask(k) \/ TaskRun(k)

\* What the as_completed loops write: the record list with its detail keys,
\* what the loops saw of each future, the error log, and the report.
SharedResults == <<packages, pageOutcome, detailOutcome, errorLog, output>>

\* C30: the shared results are written by the orchestrating thread only. A
\* step of a worker changes nothing but its own future (and issues GETs);
\* the record list changes only in a step of an as_completed loop that takes
\* one returned future and touches no other future, so no write of a worker
\* coincides with it; and a detail is set on the record of the future taken.
C30_OnlyOrchestratorWrites ==
    [][ /\ WorkerStep => UNCHANGED SharedResults
        /\ packages' # packages =>
              /\ pc \in {"pages", "batch"}
              /\ \E k \in DOMAIN futures :
                    /\ futures[k].st = "returned"
                    /\ futures' = Without(k)
                    /\ pc = "batch" =>
                          \A j \in 1..Len(packages) :
                              j # k => packages'[j] = packages[j]
                    /\ pc = "pages" =>
                          /\ Len(packages') > Len(packages)
                          /\ SubSeq(packages', 1, Len(packages)) = packages
      ]_vars

\* C30 witness: a worker is running its GET for one record of the batch
\* while the orchestrating thread has already set the detail of another
\* record of the same batch.
C30_Witness ==
    /\ pc = "batch"
    /\ \E k \in Running, j \in BatchKeys(batch_i, Len(packages)) :
          /\ j # k
          /\ packages[j].has_detail
====
